---- MODULE Spec2Model ----
(***************************************************************************)
(* Model of the financial engine of the BioCO2 financial analysis app:     *)
(* runFinancialModel and runSensitivity of src/src/App.jsx (the extended   *)
(* engine, with eligibility threshold and greenhouse pathway) and of       *)
(* src/unnamed/part_000 (the simple engine).                               *)
(*                                                                         *)
(* Numbers.  A JavaScript number is modelled as an exact rational          *)
(* [n |-> numerator, d |-> denominator] in lowest terms with d > 0, or as  *)
(* one of the three non-finite values, which have d = 0:                   *)
(*     +Infinity = <1/0>,  -Infinity = <-1/0>,  NaN = <0/0>.               *)
(* Arithmetic follows IEEE-754 / ECMAScript on the non-finite values       *)
(* (x/0, Inf-Inf, 0*Inf, comparisons with NaN are false, ...).  Rounding   *)
(* of finite results and the sign of zero are not modelled.                *)
(***************************************************************************)
EXTENDS Integers, Sequences, FiniteSets, TLC

\* ------------------------------------------------------------------------
\* Extended rational arithmetic
\* ------------------------------------------------------------------------

Abs(i) == IF i < 0 THEN -i ELSE i

RECURSIVE GCD(_, _)
GCD(a, b) == IF b = 0 THEN a ELSE GCD(b, a % b)

Sgn(i) == IF i > 0 THEN 1 ELSE IF i < 0 THEN -1 ELSE 0

LCM(a, b) == (a \div GCD(a, b)) * b

\* ------------------------------------------------------------------------
\* Exact integers of any size, for the discounted sums whose terms
\* CF / (1 + rate)^y have large numerators and denominators: a natural
\* number is its sequence of base-LimbBase digits, least significant first,
\* without leading zero digits; a signed integer is [s |-> sign, m |-> digits]
\* ------------------------------------------------------------------------
LimbBase == 100 * 100

RECURSIVE BFromNat(_)
BFromNat(k) == IF k = 0 THEN <<>> ELSE <<k % LimbBase>> \o BFromNat(k \div LimbBase)

RECURSIVE BStrip(_)
BStrip(a) ==
    IF a = <<>> THEN a
    ELSE IF a[Len(a)] = 0 THEN BStrip(SubSeq(a, 1, Len(a) - 1)) ELSE a

Digit(a, k) == IF k <= Len(a) THEN a[k] ELSE 0

RECURSIVE BAddFrom(_, _, _, _)
BAddFrom(a, b, k, carry) ==
    IF k > Len(a) /\ k > Len(b)
    THEN (IF carry = 0 THEN <<>> ELSE <<carry>>)
    ELSE LET t == Digit(a, k) + Digit(b, k) + carry
         IN  <<t % LimbBase>> \o BAddFrom(a, b, k + 1, t \div LimbBase)

BAdd(a, b) == BAddFrom(a, b, 1, 0)

\* a - b for a >= b
RECURSIVE BSubFrom(_, _, _, _)
BSubFrom(a, b, k, borrow) ==
    IF k > Len(a) THEN <<>>
    ELSE LET t == Digit(a, k) - Digit(b, k) - borrow
         IN  IF t < 0
             THEN <<t + LimbBase>> \o BSubFrom(a, b, k + 1, 1)
             ELSE <<t>> \o BSubFrom(a, b, k + 1, 0)

BSub(a, b) == BStrip(BSubFrom(a, b, 1, 0))

\* -1, 0, 1 as a < b, a = b, a > b
RECURSIVE BCmpFrom(_, _, _)
BCmpFrom(a, b, k) ==
    IF k = 0 THEN 0
    ELSE IF a[k] # b[k] THEN (IF a[k] < b[k] THEN -1 ELSE 1)
    ELSE BCmpFrom(a, b, k - 1)

BCmp(a, b) ==
    IF Len(a) # Len(b) THEN (IF Len(a) < Len(b) THEN -1 ELSE 1)
    ELSE BCmpFrom(a, b, Len(a))

\* a * digit
RECURSIVE BMulDigitFrom(_, _, _, _)
BMulDigitFrom(a, dg, k, carry) ==
    IF k > Len(a) THEN BFromNat(carry)
    ELSE LET t == a[k] * dg + carry
         IN  <<t % LimbBase>> \o BMulDigitFrom(a, dg, k + 1, t \div LimbBase)

RECURSIVE BMulFrom(_, _, _)
BMulFrom(a, b, k) ==
    IF k > Len(b) THEN <<>>
    ELSE BAdd(BMulDigitFrom(a, b[k], 1, 0), <<0>> \o BMulFrom(a, b, k + 1))

BMul(a, b) == IF a = <<>> \/ b = <<>> THEN <<>> ELSE BStrip(BMulFrom(a, b, 1))

RECURSIVE BPow(_, _)
BPow(a, k) == IF k = 0 THEN <<1>> ELSE BMul(a, BPow(a, k - 1))

Z(i) == [s |-> Sgn(i), m |-> BFromNat(Abs(i))]

ZAdd(a, b) ==
    IF a.s = 0 THEN b
    ELSE IF b.s = 0 THEN a
    ELSE IF a.s = b.s THEN [s |-> a.s, m |-> BAdd(a.m, b.m)]
    ELSE LET c == BCmp(a.m, b.m)
         IN  IF c = 0 THEN [s |-> 0, m |-> <<>>]
             ELSE IF c > 0 THEN [s |-> a.s, m |-> BSub(a.m, b.m)]
             ELSE [s |-> b.s, m |-> BSub(b.m, a.m)]

ZMul(a, b) == [s |-> a.s * b.s, m |-> BMul(a.m, b.m)]

ZNeg(a) == [s |-> -a.s, m |-> a.m]
ZAbs(a) == [s |-> Abs(a.s), m |-> a.m]
ZPow(a, k) == [s |-> IF k % 2 = 0 THEN Abs(a.s) ELSE a.s, m |-> BPow(a.m, k)]
ZLe(a, b) == ZAdd(a, ZNeg(b)).s <= 0


\* ------------------------------------------------------------------------
\* Extended rationals
\* ------------------------------------------------------------------------

\* the rational n/d (d # 0) in lowest terms
Q(n, d) ==
    LET s == IF d < 0 THEN -1 ELSE 1
        g == GCD(Abs(n), Abs(d))
    IN  [n |-> (s * n) \div g, d |-> (s * d) \div g]

I(i) == [n |-> i, d |-> 1]

PosInf == [n |-> 1, d |-> 0]
NegInf == [n |-> -1, d |-> 0]
NaN == [n |-> 0, d |-> 0]

IsFinite(a) == a.d # 0
IsNaN(a) == a.d = 0 /\ a.n = 0
SignOf(a) == Sgn(a.n)
InfOfSign(s) == IF s > 0 THEN PosInf ELSE IF s < 0 THEN NegInf ELSE NaN

\* a + b
RAdd(a, b) ==
    IF IsNaN(a) \/ IsNaN(b) THEN NaN
    ELSE IF ~IsFinite(a) /\ ~IsFinite(b) THEN (IF a = b THEN a ELSE NaN)
    ELSE IF ~IsFinite(a) THEN a
    ELSE IF ~IsFinite(b) THEN b
    ELSE LET g == GCD(a.d, b.d)
             fa == b.d \div g
             fb == a.d \div g
         IN  Q(a.n * fa + b.n * fb, a.d * fa)

\* -a
RNeg(a) == [n |-> -a.n, d |-> a.d]

\* a - b
RSub(a, b) == RAdd(a, RNeg(b))

\* a * b
RMul(a, b) ==
    IF IsNaN(a) \/ IsNaN(b) THEN NaN
    ELSE IF ~IsFinite(a) \/ ~IsFinite(b) THEN InfOfSign(SignOf(a) * SignOf(b))
    ELSE IF a.n = 0 \/ b.n = 0 THEN I(0)
    ELSE LET g1 == GCD(Abs(a.n), b.d)
             g2 == GCD(Abs(b.n), a.d)
         IN  Q((a.n \div g1) * (b.n \div g2), (a.d \div g2) * (b.d \div g1))

\* a / b
RDiv(a, b) ==
    IF IsNaN(a) \/ IsNaN(b) THEN NaN
    ELSE IF ~IsFinite(a) /\ ~IsFinite(b) THEN NaN
    ELSE IF ~IsFinite(a) THEN InfOfSign(SignOf(a) * (IF SignOf(b) < 0 THEN -1 ELSE 1))
    ELSE IF ~IsFinite(b) THEN I(0)
    ELSE IF b.n = 0 THEN InfOfSign(SignOf(a))
    ELSE RMul(a, Q(b.d, b.n))

\* the sign of a - b for finite a and b
CmpSign(a, b) ==
    IF a.d = b.d THEN Sgn(a.n - b.n)
    ELSE IF Sgn(a.n) # Sgn(b.n) THEN Sgn(Sgn(a.n) - Sgn(b.n))
    ELSE ZAdd(ZMul(Z(a.n), Z(b.d)), ZNeg(ZMul(Z(b.n), Z(a.d)))).s

\* the value class of a - b: NaN, +Infinity, -Infinity, or the sign 1, 0, -1
\* of a finite difference
DiffClass(a, b) == IF IsFinite(a) /\ IsFinite(b) THEN I(CmpSign(a, b)) ELSE RSub(a, b)

\* a < b, a <= b, a > b, a >= b: false when either side is NaN
RLt(a, b) ==
    /\ ~IsNaN(a) /\ ~IsNaN(b)
    /\ IF IsFinite(a) /\ IsFinite(b) THEN CmpSign(a, b) < 0
       ELSE IF ~IsFinite(a) /\ ~IsFinite(b) THEN a.n < b.n
       ELSE IF ~IsFinite(a) THEN a.n < 0
       ELSE b.n > 0

RLe(a, b) == ~IsNaN(a) /\ ~IsNaN(b) /\ (a = b \/ RLt(a, b))
RGt(a, b) == RLt(b, a)
RGe(a, b) == RLe(b, a)

\* Math.min, Math.max, Math.abs, Math.floor
RMin(a, b) == IF IsNaN(a) \/ IsNaN(b) THEN NaN ELSE IF RLe(a, b) THEN a ELSE b
RMax(a, b) == IF IsNaN(a) \/ IsNaN(b) THEN NaN ELSE IF RGe(a, b) THEN a ELSE b
RAbs(a) == [n |-> Abs(a.n), d |-> a.d]
RFloor(a) == IF IsFinite(a) THEN I(a.n \div a.d) ELSE a

\* Math.pow(a, k) for an integer exponent k
RECURSIVE RPowNat(_, _)
RPowNat(a, k) == IF k = 0 THEN I(1) ELSE RMul(a, RPowNat(a, k - 1))

RPow(a, k) == IF k >= 0 THEN RPowNat(a, k) ELSE RDiv(I(1), RPowNat(a, -k))


\* ------------------------------------------------------------------------
\* Optional values: null is <<>>, a value v is <<v>>
\* ------------------------------------------------------------------------
Null == <<>>
Some(v) == <<v>>
IsNull(o) == o = <<>>
Val(o) == o[1]

\* ------------------------------------------------------------------------
\* runFinancialModel: quantities computed before the year loop.
\* v is the engine: "extended" (src/src/App.jsx) or "simple"
\* (src/unnamed/part_000); inp is the destructured inputs object.
\* ------------------------------------------------------------------------
Engines == {"extended", "simple"}

\* Annual CO2 of one unit
CO2_tpy(inp) == RMul(RMul(inp.CO2_tpd, I(365)), inp.f_avail)

\* Single unit CAPEX
C_equipment(inp) ==
    RAdd(RAdd(RAdd(RAdd(RAdd(RAdd(RAdd(RAdd(RAdd(RAdd(
        inp.C_vessels, inp.C_adsorbent), inp.C_HX), inp.C_blower), inp.C_valves),
        inp.C_compressor), inp.C_pretreat), inp.C_controls), inp.C_electrical),
        inp.C_piping), inp.C_container)

CAPEX_unit1(inp) ==
    RMul(C_equipment(inp), RAdd(RAdd(I(1), inp.f_install), inp.f_engineering))

\* the integer k with a = 2^k, for a positive power of two
RECURSIVE Log2(_)
Log2(a) ==
    IF a = I(1) THEN 0
    ELSE IF a.d = 1 THEN 1 + Log2(Q(a.n, 2))
    ELSE Log2(Q(2 * a.n, a.d)) - 1

\* Math.log(LR) / Math.log(2), for LR a power of two, 0 or negative (the
\* values the model draws LR from): Math.log(0) is -Infinity and Math.log
\* of a negative number is NaN
lr_exp(inp) ==
    IF inp.LR = I(0) THEN NegInf
    ELSE IF RLt(inp.LR, I(0)) THEN NaN
    ELSE I(Log2(inp.LR))

\* Math.pow(a, e) for an exponent e that is an integer, infinite or NaN
MathPow(a, e) ==
    IF IsNaN(e) THEN NaN
    ELSE IF e = I(0) THEN I(1)
    ELSE IF IsNaN(a) THEN NaN
    ELSE IF IsFinite(e) THEN RPow(a, e.n)
    ELSE IF RAbs(a) = I(1) THEN NaN
    ELSE IF RGt(RAbs(a), I(1)) = (e = PosInf) THEN PosInf
    ELSE I(0)

\* a unit cost whose learning-curve factor is taken one unit further on
UnitCost_next_unit(inp, n) == RMul(CAPEX_unit1(inp), MathPow(I(n + 1), lr_exp(inp)))

\* cost of the n-th unit under the learning curve
UnitCost(inp, n) == RMul(CAPEX_unit1(inp), MathPow(I(n), lr_exp(inp)))

\* number of iterations of  for (let n = 1; n <= N_units; n++)
NumUnitsBuilt(inp) ==
    IF RGe(inp.N_units, I(1)) THEN RFloor(inp.N_units).n ELSE 0

unit_capex(inp) == [n \in 1..NumUnitsBuilt(inp) |-> UnitCost(inp, n)]

RECURSIVE SumSeq(_, _)
SumSeq(s, k) == IF k = 0 THEN I(0) ELSE RAdd(SumSeq(s, k - 1), s[k])

capex_fleet_total(inp) == SumSeq(unit_capex(inp), NumUnitsBuilt(inp))

\* ------------------------------------------------------------------------
\* runFinancialModel: one iteration of the year loop.  The operators take
\* the values the loop body has already computed (N_deployed, CO2_fleet,
\* capex_cum, ...) as parameters, named as in the source.
\* ------------------------------------------------------------------------

\* Math.min(N_units, Math.floor(y * units_per_year) + 1)
DeployedAt(inp, y) ==
    RMin(inp.N_units, RAdd(RFloor(RMul(I(y), inp.units_per_year)), I(1)))

\* Fleet size
N_deployed(inp, y) == DeployedAt(inp, y)

\* a previous fleet size that is always 0
N_prev_always_zero(inp, y) == I(0)

N_prev(inp, y) == IF y = 0 THEN I(0) ELSE DeployedAt(inp, y - 1)

CO2_fleet(inp, n_deployed) == RMul(n_deployed, CO2_tpy(inp))

\* an eligibility gate that always passes
is_45Q_eligible_always(v, inp, co2_fleet) == TRUE

\* an eligibility gate that needs an output above the threshold
is_45Q_eligible_strict(v, inp, co2_fleet) ==
    IF v = "extended" THEN RGt(co2_fleet, inp.Q_thresh_45Q) ELSE TRUE

is_45Q_eligible(v, inp, co2_fleet) ==
    IF v = "extended" THEN RGe(co2_fleet, inp.Q_thresh_45Q) ELSE TRUE

\* unit_capex[i - 1] || 0 for the 1-based unit number i (a number, maybe not
\* an integer): undefined, 0 and NaN all give 0
CostOrZero(sched, i) ==
    IF i.d = 1 /\ i.n >= 1 /\ i.n <= Len(sched) /\ ~IsNaN(sched[i.n])
    THEN sched[i.n] ELSE I(0)

\* for (let n = from; n <= to; n++) sum += unit_capex[n - 1] || 0
RECURSIVE SumCostFrom(_, _, _)
SumCostFrom(sched, from, to) ==
    IF RLe(from, to)
    THEN RAdd(CostOrZero(sched, from), SumCostFrom(sched, RAdd(from, I(1)), to))
    ELSE I(0)

\* CAPEX this year
capex_year(sched, n_prev, n_deployed) ==
    SumCostFrom(sched, RAdd(n_prev, I(1)), n_deployed)

\* for (let n = 0; n < to; n++) sum += unit_capex[n] || 0
RECURSIVE SumCostBelow(_, _, _)
SumCostBelow(sched, n, to) ==
    IF RLt(I(n), to)
    THEN RAdd(CostOrZero(sched, I(n + 1)), SumCostBelow(sched, n + 1, to))
    ELSE I(0)

\* a cumulative CAPEX that is the cost of the whole fleet from the first year
capex_cum_whole_fleet(sched, n_deployed) == SumCostBelow(sched, 0, I(Len(sched)))

\* Cumulative CAPEX deployed
capex_cum(sched, n_deployed) == SumCostBelow(sched, 0, n_deployed)

\* Math.pow(1 + rate / 100, k)
Escalation(rate, k) == RPow(RAdd(I(1), RDiv(rate, I(100))), k)

\* calendar year
YearOf(inp, y) == RAdd(inp.Y_start, I(y))

\* effective credit rate of the year
\* a rate escalated from the inflation start year in both directions
CreditRate_retroactive(inp, y) ==
    RMul(inp.CR_45Q, Escalation(inp.r_CPI, RSub(YearOf(inp, y), inp.Y_45Q_infl).n))

CreditRate(inp, y) ==
    IF RGe(YearOf(inp, y), inp.Y_45Q_infl)
    THEN RMul(inp.CR_45Q, Escalation(inp.r_CPI, RSub(YearOf(inp, y), inp.Y_45Q_infl).n))
    ELSE inp.CR_45Q

\* a 45Q revenue that credits the greenhouse portion whatever the toggle
R_45Q_toggle_ignored(v, inp, y, co2_fleet, eligible) ==
    IF RGt(inp.f_45Q, I(0)) /\ RLe(I(y), inp.T_45Q) /\ eligible
    THEN IF v = "extended"
         THEN RMul(RAdd(RMul(RMul(co2_fleet, inp.f_45Q), RSub(I(1), inp.f_greenhouse)),
                        RMul(co2_fleet, inp.f_greenhouse)),
                   CreditRate(inp, y))
         ELSE RMul(RMul(co2_fleet, inp.f_45Q), CreditRate(inp, y))
    ELSE I(0)

\* 45Q
R_45Q(v, inp, y, co2_fleet, eligible) ==
    IF RGt(inp.f_45Q, I(0)) /\ RLe(I(y), inp.T_45Q) /\ eligible
    THEN IF v = "extended"
         THEN LET cr == CreditRate(inp, y)
                  CO2_non_gh == RMul(RMul(co2_fleet, inp.f_45Q),
                                     RSub(I(1), inp.f_greenhouse))
                  CO2_gh == RMul(co2_fleet, inp.f_greenhouse)
              IN  IF inp.gh_45Q_eligible
                  THEN RMul(RAdd(CO2_non_gh, CO2_gh), cr)
                  ELSE RMul(CO2_non_gh, cr)
         ELSE RMul(RMul(co2_fleet, inp.f_45Q), CreditRate(inp, y))
    ELSE I(0)

\* VCM
R_VCM(inp, y, co2_fleet) ==
    RMul(RMul(co2_fleet, inp.f_VCM), RMul(inp.P_VCM, Escalation(inp.r_VCM, y)))

\* the volumes sold at the standard and at the greenhouse offtake price:
\* CO2_fleet * Math.max(0, f_offtake - f_greenhouse) and CO2_fleet * f_greenhouse
OfftakeVolume_non_gh(inp, co2_fleet) ==
    RMul(co2_fleet, RMax(I(0), RSub(inp.f_offtake, inp.f_greenhouse)))
OfftakeVolume_gh(inp, co2_fleet) == RMul(co2_fleet, inp.f_greenhouse)

\* Offtake (split greenhouse in the extended engine)
R_offtake(v, inp, y, co2_fleet) ==
    LET P_offtake_y == RMul(inp.P_offtake, Escalation(inp.r_offtake, y))
        P_gh_y == RMul(inp.P_greenhouse, Escalation(inp.r_offtake, y))
        R_offtake_non_gh == RMul(OfftakeVolume_non_gh(inp, co2_fleet), P_offtake_y)
        R_offtake_gh == RMul(OfftakeVolume_gh(inp, co2_fleet), P_gh_y)
    IN  IF v = "extended"
        THEN RAdd(R_offtake_non_gh, R_offtake_gh)
        ELSE RMul(RMul(co2_fleet, inp.f_offtake), P_offtake_y)

\* Compliance
R_comply(inp, y, co2_fleet) ==
    RMul(RMul(RMul(co2_fleet, inp.f_comply), inp.P_comply), Escalation(inp.r_rev, y))

R_total(r_45q, r_vcm, r_offtake, r_comply) ==
    RAdd(RAdd(RAdd(r_45q, r_vcm), r_offtake), r_comply)

\* OPEX with no replacement cost for a service life of 0
OPEX_guarded(inp, y, n_deployed, cum) ==
    LET C_elec == RMul(RMul(RMul(RMul(n_deployed, inp.W_total), I(8760)),
                            inp.f_avail), inp.P_elec)
        C_ads_replace == IF inp.T_ads_life = I(0) THEN I(0)
                         ELSE RDiv(RMul(n_deployed, inp.C_adsorbent), inp.T_ads_life)
        C_fixed == RMul(n_deployed,
                        RAdd(RAdd(inp.C_valve_maint, inp.C_cal), inp.C_monitor))
        C_insure == RDiv(RMul(cum, inp.f_insurance), I(100))
        C_gen_maint == RDiv(RMul(cum, inp.f_maint), I(100))
    IN  RMul(RAdd(RAdd(RAdd(RAdd(C_elec, C_ads_replace), C_fixed), C_insure),
                  C_gen_maint),
             Escalation(inp.r_OPEX, y))

\* OPEX
OPEX(inp, y, n_deployed, cum) ==
    LET C_elec == RMul(RMul(RMul(RMul(n_deployed, inp.W_total), I(8760)),
                            inp.f_avail), inp.P_elec)
        C_ads_replace == RDiv(RMul(n_deployed, inp.C_adsorbent), inp.T_ads_life)
        C_fixed == RMul(n_deployed,
                        RAdd(RAdd(inp.C_valve_maint, inp.C_cal), inp.C_monitor))
        C_insure == RDiv(RMul(cum, inp.f_insurance), I(100))
        C_gen_maint == RDiv(RMul(cum, inp.f_maint), I(100))
    IN  RMul(RAdd(RAdd(RAdd(RAdd(C_elec, C_ads_replace), C_fixed), C_insure),
                  C_gen_maint),
             Escalation(inp.r_OPEX, y))

\* Cash flow
CF(r_total, opex, capex) == RSub(RSub(r_total, opex), capex)

discount_factor(inp, y) == Escalation(inp.r_disc, y)

\* a DCF that is not discounted
DCF_undiscounted(inp, y, cf) == cf

DCF(inp, y, cf) == RDiv(cf, discount_factor(inp, y))

\* The loop body, in the order of the source.  Each stage computes the
\* values of one part of the body and hands them on; sched is unit_capex and
\* cum_before the value of cumulative_dcf before this iteration.

\* the record pushed onto years, with CF, DCF and the running cumulative_dcf
PushRecord(inp, y, cum_before, nd, co2, elig, cy, ox, r45, rv, ro, rc, rt) ==
    LET cf == CF(rt, ox, cy)
        dcf == DCF(inp, y, cf)
    IN  [ year |-> YearOf(inp, y), y |-> y,
          N_deployed |-> nd, CO2_fleet |-> co2, is_45Q_eligible |-> elig,
          R_45Q |-> r45, R_VCM |-> rv, R_offtake |-> ro, R_comply |-> rc,
          R_total |-> rt,
          OPEX |-> ox, capex_year |-> cy, CF |-> cf, DCF |-> dcf,
          cumulative_dcf |-> RAdd(cum_before, dcf),
          R_per_ton |-> IF RGt(co2, I(0)) THEN RDiv(rt, co2) ELSE I(0),
          OPEX_per_ton |-> IF RGt(co2, I(0)) THEN RDiv(ox, co2) ELSE I(0) ]

\* the total of the four revenue streams
TotalOfYear(inp, y, cum_before, nd, co2, elig, cy, ox, r45, rv, ro, rc) ==
    PushRecord(inp, y, cum_before, nd, co2, elig, cy, ox, r45, rv, ro, rc,
               R_total(r45, rv, ro, rc))

\* the four revenue streams
RevenueOfYear(v, inp, y, cum_before, nd, co2, elig, cy, ox) ==
    TotalOfYear(inp, y, cum_before, nd, co2, elig, cy, ox,
                R_45Q(v, inp, y, co2, elig), R_VCM(inp, y, co2),
                R_offtake(v, inp, y, co2), R_comply(inp, y, co2))

\* eligibility, CAPEX of the year, and OPEX on the cumulative CAPEX
CostOfYear(v, inp, sched, y, cum_before, nd, co2) ==
    RevenueOfYear(v, inp, y, cum_before, nd, co2, is_45Q_eligible(v, inp, co2),
                  capex_year(sched, N_prev(inp, y), nd),
                  OPEX(inp, y, nd, capex_cum(sched, nd)))

\* fleet output
FleetOfYear(v, inp, sched, y, cum_before, nd) ==
    CostOfYear(v, inp, sched, y, cum_before, nd, CO2_fleet(inp, nd))

\* one iteration of the year loop: the record it pushes
YearRecord(v, inp, sched, y, cum_before) ==
    FleetOfYear(v, inp, sched, y, cum_before, N_deployed(inp, y))

\* a payback update that accepts year 0
PaybackUpdate_from_year_0(payback, cumulative, y) ==
    IF IsNull(payback) /\ RGe(cumulative, I(0)) THEN Some(y) ELSE payback

\* a payback update that overwrites an earlier payback year
PaybackUpdate_latest(payback, cumulative, y) ==
    IF RGe(cumulative, I(0)) /\ y > 0 THEN Some(y) ELSE payback

\* payback update:  if (payback === null && cumulative >= 0 && y > 0) payback = y
PaybackUpdate(payback, cumulative, y) ==
    IF IsNull(payback) /\ RGe(cumulative, I(0)) /\ y > 0 THEN Some(y) ELSE payback


\* ------------------------------------------------------------------------
\* Discounted sums over the year records.  cfs[k] is the cash flow of the
\* record with y = k - 1 and onePlus = 1 + rate # 0, so that
\*     sum_k cfs[k] / onePlus^(k-1)  =  ScaledSum / (CommonDen * p^(Len-1))
\* with onePlus = p/q and CommonDen the common denominator of the cash flows;
\* p is negative for a rate below -100%
\* ------------------------------------------------------------------------
RECURSIVE CommonDen(_, _)
CommonDen(cfs, k) == IF k = 0 THEN 1 ELSE LCM(CommonDen(cfs, k - 1), cfs[k].d)

RECURSIVE ScaledSumTo(_, _, _, _)
ScaledSumTo(cfs, onePlus, den, k) ==
    IF k = 0 THEN Z(0)
    ELSE ZAdd(ScaledSumTo(cfs, onePlus, den, k - 1),
              ZMul(Z(cfs[k].n * (den \div cfs[k].d)),
                   ZMul(ZPow(Z(onePlus.d), k - 1), ZPow(Z(onePlus.n), Len(cfs) - k))))

ScaledSum(cfs, onePlus) == ScaledSumTo(cfs, onePlus, CommonDen(cfs, Len(cfs)), Len(cfs))

\* the value class of  npv_test = sum of cf / Math.pow(onePlus, y):
\* NaN, +Infinity, -Infinity, or 1, 0, -1 for a finite sum of that sign
NpvSign(cfs, onePlus) ==
    LET idx == 1..Len(cfs)
    IN  IF \/ \E k \in idx : IsNaN(cfs[k])
           \/ (PosInf \in {cfs[k] : k \in idx} /\ NegInf \in {cfs[k] : k \in idx})
        THEN NaN
        ELSE IF \E k \in idx : cfs[k] = PosInf THEN PosInf
        ELSE IF \E k \in idx : cfs[k] = NegInf THEN NegInf
        ELSE I(ScaledSum(cfs, onePlus).s * ZPow(Z(onePlus.n), Len(cfs) - 1).s)

\* |sum of cf / onePlus^y| <= bound, for finite cash flows and a finite bound
NpvAbsLe(cfs, onePlus, bound) ==
    ZLe(ZMul(ZAbs(ScaledSum(cfs, onePlus)), Z(bound.d)),
        ZMul(Z(bound.n),
             ZMul(Z(CommonDen(cfs, Len(cfs))),
                  ZAbs(ZPow(Z(onePlus.n), Len(cfs) - 1)))))

\* ------------------------------------------------------------------------
\* runFinancialModel after the year loop
\* ------------------------------------------------------------------------
IrrLo0 == Q(-1, 2)
IrrHi0 == I(2)
IrrMaxIter == 100
IrrWidth == Q(1, 10000)
IrrMoved == Q(1, 100)

\* yr.CF of every record
CashFlows(yrs) == [k \in 1..Len(yrs) |-> yrs[k].CF]

\* one iteration of the IRR bisection on the bracket [l, h]
IrrTestSign(yrs, l, h) == NpvSign(CashFlows(yrs), RAdd(I(1), RDiv(RAdd(l, h), I(2))))

\* a search that widens the bracket upwards while npv_test is positive
IrrNext_expanding(yrs, l, h) ==
    IF RGt(IrrTestSign(yrs, l, h), I(0))
    THEN [lo |-> RDiv(RAdd(l, h), I(2)), hi |-> RAdd(h, RSub(h, l))]
    ELSE [lo |-> l, hi |-> RDiv(RAdd(l, h), I(2))]

\* if (npv_test > 0) lo = mid; else hi = mid;  the new bracket
IrrNext(yrs, l, h) ==
    IF RGt(IrrTestSign(yrs, l, h), I(0))
    THEN [lo |-> RDiv(RAdd(l, h), I(2)), hi |-> h]
    ELSE [lo |-> l, hi |-> RDiv(RAdd(l, h), I(2))]

\* an IRR reported as soon as either end of the bracket has moved
IrrResult_either_end(l, h) ==
    IF RGt(RAbs(RSub(l, IrrLo0)), IrrMoved) \/ RGt(RAbs(RSub(h, IrrHi0)), IrrMoved)
    THEN Some(RDiv(RAdd(l, h), I(2)))
    ELSE Null

\* IRR from the final bracket
IrrResult(l, h) ==
    IF RGt(RAbs(RSub(l, IrrLo0)), IrrMoved) /\ RGt(RAbs(RSub(h, IrrHi0)), IrrMoved)
    THEN Some(RDiv(RAdd(l, h), I(2)))
    ELSE Null

\* LCCC
RECURSIVE SumOPEX(_, _)
SumOPEX(yrs, k) == IF k = 0 THEN I(0) ELSE RAdd(SumOPEX(yrs, k - 1), yrs[k].OPEX)

\* a capital recovery factor without the case for a zero rate
CRF_no_zero_rate_case(inp) ==
    LET r == RDiv(inp.r_disc, I(100))
        N == inp.T_project
    IN  RDiv(RMul(r, RPow(RAdd(I(1), r), N)), RSub(RPow(RAdd(I(1), r), N), I(1)))

CRF(inp) ==
    LET r == RDiv(inp.r_disc, I(100))
        N == inp.T_project
    IN  IF RGt(r, I(0))
        THEN RDiv(RMul(r, RPow(RAdd(I(1), r), N)), RSub(RPow(RAdd(I(1), r), N), I(1)))
        ELSE RDiv(I(1), I(N))

LCCCOf(inp, yrs) ==
    LET CAPEX_annual == RMul(capex_fleet_total(inp), CRF(inp))
        avg_OPEX == RDiv(SumOPEX(yrs, Len(yrs)), I(Len(yrs)))
    IN  IF RGt(CO2_tpy(inp), I(0)) /\ RGt(inp.N_units, I(0))
        THEN RDiv(RAdd(CAPEX_annual, avg_OPEX), RMul(inp.N_units, CO2_tpy(inp)))
        ELSE I(0)

\* Breakeven credit price
BeLo0 == I(0)
BeHi0 == I(300)
BeMaxIter == 80
BeWidth == Q(1, 2)

\* cash flow of a year record with the 45Q revenue recomputed at rate price
BeCashFlow(v, inp, yr, price) ==
    LET R_45Q_test ==
            IF (v = "simple" \/ yr.is_45Q_eligible) /\ RLe(I(yr.y), inp.T_45Q)
            THEN RMul(RMul(yr.CO2_fleet, inp.f_45Q), price) ELSE I(0)
        R_other == RAdd(RAdd(yr.R_VCM, yr.R_offtake), yr.R_comply)
    IN  RSub(RSub(RAdd(R_45Q_test, R_other), yr.OPEX), yr.capex_year)

BeCashFlows(v, inp, yrs, price) ==
    [k \in 1..Len(yrs) |-> BeCashFlow(v, inp, yrs[k], price)]

\* the value class of the search's npv_test at a price
BeTestSign(v, inp, yrs, price) ==
    NpvSign(BeCashFlows(v, inp, yrs, price), RAdd(I(1), RDiv(inp.r_disc, I(100))))

\* a search that raises b_lo where npv_test is positive
BeNext_on_positive(v, inp, yrs, l, h) ==
    IF RGt(BeTestSign(v, inp, yrs, RDiv(RAdd(l, h), I(2))), I(0))
    THEN [lo |-> RDiv(RAdd(l, h), I(2)), hi |-> h]
    ELSE [lo |-> l, hi |-> RDiv(RAdd(l, h), I(2))]

\* a search that leaves the bracket as it is where npv_test is not negative
BeNext_keeps_upper_end(v, inp, yrs, l, h) ==
    IF RLt(BeTestSign(v, inp, yrs, RDiv(RAdd(l, h), I(2))), I(0))
    THEN [lo |-> RDiv(RAdd(l, h), I(2)), hi |-> h]
    ELSE [lo |-> l, hi |-> h]

\* if (npv_test < 0) b_lo = mid; else b_hi = mid;  the new bracket
BeNext(v, inp, yrs, l, h) ==
    IF RLt(BeTestSign(v, inp, yrs, RDiv(RAdd(l, h), I(2))), I(0))
    THEN [lo |-> RDiv(RAdd(l, h), I(2)), hi |-> h]
    ELSE [lo |-> l, hi |-> RDiv(RAdd(l, h), I(2))]

\* Revenue per ton (year 1)
PerTon(yr1, amount) == IF RGt(yr1.CO2_fleet, I(0)) THEN RDiv(amount, yr1.CO2_fleet) ELSE I(0)

\* a threshold search without the break: the year of the last eligible record
RECURSIVE ThresholdYear_no_break(_, _)
ThresholdYear_no_break(yrs, k) ==
    IF k > Len(yrs) THEN Null
    ELSE IF ThresholdYear_no_break(yrs, k + 1) # Null
         THEN ThresholdYear_no_break(yrs, k + 1)
    ELSE IF yrs[k].is_45Q_eligible THEN Some(yrs[k].year)
    ELSE Null

\* Threshold crossing year (extended engine): year of the first eligible record
RECURSIVE ThresholdYear(_, _)
ThresholdYear(yrs, k) ==
    IF k > Len(yrs) THEN Null
    ELSE IF yrs[k].is_45Q_eligible THEN Some(yrs[k].year)
    ELSE ThresholdYear(yrs, k + 1)

\* warnings with the never-eligible one pushed whatever the incentive fraction
WarningsOf_any_fraction(v, inp, yrs, npv) ==
    (IF v = "extended" /\ ~(\E k \in 1..Len(yrs) : yrs[k].is_45Q_eligible)
     THEN <<"never_eligible">> ELSE <<>>)
    \o (IF RGt(RAdd(RAdd(RAdd(inp.f_45Q, inp.f_VCM), inp.f_offtake), inp.f_comply),
              Q(101, 100))
        THEN <<"allocation_exceeds">> ELSE <<>>)
    \o (IF RLt(npv, I(0)) THEN <<"npv_negative">> ELSE <<>>)

\* Warnings, in the order they are pushed
WarningsOf(v, inp, yrs, npv) ==
    (IF v = "extended" /\ RGt(inp.f_45Q, I(0))
        /\ ~(\E k \in 1..Len(yrs) : yrs[k].is_45Q_eligible)
     THEN <<"never_eligible">> ELSE <<>>)
    \o (IF RGt(RAdd(RAdd(RAdd(inp.f_45Q, inp.f_VCM), inp.f_offtake), inp.f_comply),
              Q(101, 100))
        THEN <<"allocation_exceeds">> ELSE <<>>)
    \o (IF RLt(npv, I(0)) THEN <<"npv_negative">> ELSE <<>>)


\* ------------------------------------------------------------------------
\* runFinancialModel as called by runSensitivity: only .NPV of the returned
\* object is read, so the run is its year loop
\* ------------------------------------------------------------------------
\* a run whose accumulator is left over from an earlier invocation
RECURSIVE YearsUpTo_not_reset(_, _, _, _)
YearsUpTo_not_reset(v, inp, sched, k) ==
    IF k < 0 THEN <<>>
    ELSE LET before == YearsUpTo_not_reset(v, inp, sched, k - 1)
             cum == IF k = 0 THEN I(1) ELSE before[k].cumulative_dcf
         IN  Append(before, YearRecord(v, inp, sched, k, cum))

RECURSIVE YearsUpTo(_, _, _, _)
YearsUpTo(v, inp, sched, k) ==
    IF k < 0 THEN <<>>
    ELSE LET before == YearsUpTo(v, inp, sched, k - 1)
             cum == IF k = 0 THEN I(0) ELSE before[k].cumulative_dcf
         IN  Append(before, YearRecord(v, inp, sched, k, cum))

RunYears(v, inp) == YearsUpTo(v, inp, unit_capex(inp), inp.T_project)

\* a run of runFinancialModel on the inputs x: the inputs and its year records
RunOn(v, x) == [inputs |-> x, years |-> RunYears(v, x)]

\* NPV = cumulative_dcf after the loop
NPVOfYears(yrs) == IF yrs = <<>> THEN I(0) ELSE yrs[Len(yrs)].cumulative_dcf

\* ------------------------------------------------------------------------
\* runFinancialModel as one function of the engine and the inputs object
\* ------------------------------------------------------------------------
\* cumulative_cf_undiscounted after the first k iterations of the year loop
RECURSIVE CumulativeCF(_, _)
CumulativeCF(yrs, k) == IF k = 0 THEN I(0) ELSE RAdd(CumulativeCF(yrs, k - 1), yrs[k].CF)

\* payback_disc and payback_simple after the first k iterations
RECURSIVE PaybackDiscAfter(_, _)
PaybackDiscAfter(yrs, k) ==
    IF k = 0 THEN Null
    ELSE PaybackUpdate(PaybackDiscAfter(yrs, k - 1), yrs[k].cumulative_dcf, yrs[k].y)

RECURSIVE PaybackSimpleAfter(_, _)
PaybackSimpleAfter(yrs, k) ==
    IF k = 0 THEN Null
    ELSE PaybackUpdate(PaybackSimpleAfter(yrs, k - 1), CumulativeCF(yrs, k), yrs[k].y)

\* for (let iter = 0; iter < 100; iter++) { ...; if (Math.abs(hi - lo) < 0.0001) break; }
\* from the bracket [l, h] at iteration it: the final bracket
RECURSIVE IrrSearch(_, _, _, _)
IrrSearch(yrs, l, h, it) ==
    IF it >= IrrMaxIter THEN [lo |-> l, hi |-> h]
    ELSE LET br == IrrNext(yrs, l, h)
         IN  IF RLt(RAbs(RSub(br.hi, br.lo)), IrrWidth) THEN br
             ELSE IrrSearch(yrs, br.lo, br.hi, it + 1)

\* for (let iter = 0; iter < 80; iter++) { ...; if (Math.abs(b_hi - b_lo) < 0.5) break; }
RECURSIVE BeSearch(_, _, _, _, _, _)
BeSearch(v, inp, yrs, l, h, it) ==
    IF it >= BeMaxIter THEN [lo |-> l, hi |-> h]
    ELSE LET br == BeNext(v, inp, yrs, l, h)
         IN  IF RLt(RAbs(RSub(br.hi, br.lo)), BeWidth) THEN br
             ELSE BeSearch(v, inp, yrs, br.lo, br.hi, it + 1)

\* the metrics of the returned object, from the year records
ResultOfYears(v, inp, yrs, irr, be) ==
    [ years |-> yrs, NPV |-> NPVOfYears(yrs), IRR |-> IrrResult(irr.lo, irr.hi),
      payback_disc |-> PaybackDiscAfter(yrs, Len(yrs)),
      payback_simple |-> PaybackSimpleAfter(yrs, Len(yrs)),
      LCCC |-> LCCCOf(inp, yrs),
      CR_breakeven |-> RDiv(RAdd(be.lo, be.hi), I(2)),
      warnings |-> WarningsOf(v, inp, yrs, NPVOfYears(yrs)) ]

\* the two searches on the year records
SearchesOfYears(v, inp, yrs) ==
    ResultOfYears(v, inp, yrs, IrrSearch(yrs, IrrLo0, IrrHi0, 0),
                  BeSearch(v, inp, yrs, BeLo0, BeHi0, 0))

\* the returned object of the engine v on the inputs inp: its year records,
\* NPV, IRR, payback years, LCCC, breakeven price and warnings
runFinancialModel(v, inp) == SearchesOfYears(v, inp, RunYears(v, inp))

\* ------------------------------------------------------------------------
\* runSensitivity
\* ------------------------------------------------------------------------
SensParams ==
    << "CR_45Q", "CO2_tpd", "f_avail", "P_offtake", "P_elec", "r_disc", "N_units",
       "T_ads_life" >>

SensLoFactor == Q(4, 5)
SensHiFactor == Q(6, 5)

\* a perturbation that applies its factor twice
Perturbed_compounding(base, key, factor) ==
    [base EXCEPT ![key] = RMul(RMul(base[key], factor), factor)]

\* { ...baseInputs, [key]: baseInputs[key] * factor }
Perturbed(base, key, factor) == [base EXCEPT ![key] = RMul(base[key], factor)]

\* the entry returned by the map callback for params[k]
SensEntry(base, k, npv_lo, npv_hi) ==
    [ key |-> SensParams[k], npv_lo |-> npv_lo, npv_hi |-> npv_hi,
      delta |-> RAbs(RSub(npv_hi, npv_lo)), base_val |-> base[SensParams[k]] ]

\* the comparator (a, b) => b.delta - a.delta, as the value class of the
\* difference; sort reads only its sign, and takes NaN for 0
SensCompare(a, b) == DiffClass(b.delta, a.delta)

\* Array.prototype.sort on a short array: stable insertion sort, an element
\* moving to the left only past elements that compare greater than it
RECURSIVE InsertSorted(_, _)
InsertSorted(sorted, e) ==
    IF sorted = <<>> THEN <<e>>
    ELSE IF RGt(SensCompare(sorted[Len(sorted)], e), I(0))
         THEN Append(InsertSorted(SubSeq(sorted, 1, Len(sorted) - 1), e),
                     sorted[Len(sorted)])
         ELSE Append(sorted, e)

RECURSIVE SortEntries(_, _)
SortEntries(entries, k) ==
    IF k = 0 THEN <<>> ELSE InsertSorted(SortEntries(entries, k - 1), entries[k])

\* ------------------------------------------------------------------------
\* Input sets the engine is run on
\* ------------------------------------------------------------------------
MaxT == 2
MaxUnits == 2

\* the initial input set of FinancialApp, in small money units
BaseInputs ==
    [ CO2_tpd |-> Q(2, 73), f_avail |-> I(1), E_spec |-> I(1200), W_total |-> Q(1, 10),
      CR_45Q |-> I(4), f_45Q |-> Q(1, 2), T_45Q |-> I(1), Y_45Q_infl |-> I(2027),
      r_CPI |-> I(100), Q_thresh_45Q |-> I(0),
      P_VCM |-> I(5), f_VCM |-> I(0), r_VCM |-> I(0),
      P_offtake |-> I(10), f_offtake |-> Q(1, 2), r_offtake |-> I(0),
      P_comply |-> I(3), f_comply |-> I(0),
      gh_45Q_eligible |-> FALSE, f_greenhouse |-> I(0), P_greenhouse |-> I(8),
      C_vessels |-> I(20), C_adsorbent |-> I(10), C_HX |-> I(5), C_blower |-> I(0),
      C_valves |-> I(0), C_compressor |-> I(0), C_pretreat |-> I(0),
      C_controls |-> I(0), C_electrical |-> I(0), C_piping |-> I(0),
      C_container |-> I(5),
      f_install |-> Q(1, 8), f_engineering |-> Q(1, 8),
      P_elec |-> Q(1, 876), T_ads_life |-> I(5), C_valve_maint |-> I(1),
      C_cal |-> I(0), f_insurance |-> I(2), C_monitor |-> I(0), f_maint |-> I(4),
      r_OPEX |-> I(0),
      r_disc |-> I(125), T_project |-> 2, Y_start |-> I(2026), r_rev |-> I(0),
      N_units |-> I(1), LR |-> Q(1, 2), units_per_year |-> I(1) ]

Fractions == {I(0), Q(1, 2)}

\* horizon, fleet, incentive and offtake allocation, offtake price, rate
CommonInputs ==
    { [BaseInputs EXCEPT !.T_project = t, !.N_units = I(n), !.f_45Q = f4,
                         !.f_offtake = fo, !.P_offtake = po, !.r_disc = rd] :
        t \in 0..MaxT, n \in {1, MaxUnits}, f4 \in Fractions, fo \in Fractions,
        po \in {I(1), I(10)}, rd \in {I(0), I(125)} }

\* learning rates other than the base one
LearningInputs ==
    { [BaseInputs EXCEPT !.T_project = t, !.N_units = I(n), !.LR = lr] :
        t \in 0..MaxT, n \in 1..MaxUnits, lr \in {I(0), I(1), I(2)} }

\* eligibility threshold and greenhouse pathway (read by the extended engine)
PolicyInputs ==
    { [BaseInputs EXCEPT !.T_project = MaxT, !.N_units = I(n), !.f_45Q = f4,
                         !.f_offtake = fo, !.Q_thresh_45Q = q,
                         !.f_greenhouse = fg, !.gh_45Q_eligible = g] :
        n \in {1, MaxUnits}, f4 \in Fractions, fo \in Fractions,
        q \in {I(0), I(15)}, fg \in {I(0), Q(1, 2)}, g \in BOOLEAN }

\* the other two revenue streams
MarketInputs ==
    { [BaseInputs EXCEPT !.T_project = t, !.N_units = I(n), !.f_VCM = fv,
                         !.f_comply = fc, !.f_45Q = f4, !.f_offtake = f4] :
        t \in 0..MaxT, n \in {1, MaxUnits}, fv \in {I(0), Q(1, 4)},
        fc \in {I(0), Q(1, 4)}, f4 \in Fractions }

\* a zero consumable service life
DegenerateInputs ==
    { [BaseInputs EXCEPT !.T_project = t, !.N_units = I(n), !.T_ads_life = I(0),
                         !.C_adsorbent = ca, !.r_disc = rd] :
        t \in 0..MaxT, n \in {1, MaxUnits}, ca \in {I(0), I(10)}, rd \in {I(0), I(125)} }

\* a discount rate whose low perturbation, r_disc * 0.8, is -100%
NegativeRateInputs ==
    { [BaseInputs EXCEPT !.T_project = t, !.N_units = I(n), !.r_disc = I(-125),
                         !.f_45Q = f4] :
        t \in 0..MaxT, n \in 1..MaxUnits, f4 \in Fractions }

\* no fleet, or a unit that captures nothing
ZeroOutputInputs ==
    { [BaseInputs EXCEPT !.T_project = t, !.N_units = I(n), !.f_avail = fa,
                         !.r_disc = rd] :
        t \in 0..MaxT, n \in {0, 1}, fa \in {I(0), I(1)}, rd \in {I(0), I(125)} }

\* incentive window, inflation start year and inflation rate
InflationInputs ==
    { [BaseInputs EXCEPT !.T_project = MaxT, !.T_45Q = I(w), !.Y_45Q_infl = I(yi),
                         !.r_CPI = rc, !.f_greenhouse = fg] :
        w \in {1, MaxT}, yi \in {2026, 2027, 2028}, rc \in {I(0), I(100)},
        fg \in {I(0), Q(1, 4)} }

\* deployment rate and fleets that take one year, several years or more than
\* the horizon to deploy
DeploymentInputs ==
    { [BaseInputs EXCEPT !.T_project = t, !.N_units = I(n), !.units_per_year = I(u)] :
        t \in 0..MaxT, n \in 1..(MaxUnits + 1), u \in {1, 2} }

InputSet(v) ==
    CommonInputs \cup LearningInputs
        \cup (IF v = "extended" THEN PolicyInputs ELSE {})
        \cup MarketInputs \cup DegenerateInputs \cup NegativeRateInputs
        \cup ZeroOutputInputs \cup InflationInputs \cup DeploymentInputs

VARIABLES
    variant,        \* which engine runs
    inputs,         \* the inputs object of the run
    pc,             \* position in runFinancialModel
    y,              \* loop variable of the year loop
    years, cumulative_dcf, cumulative_cf_undiscounted, payback_disc, payback_simple,
    NPV, IRR, lo, hi, iter,
    LCCC, CR_breakeven, b_lo, b_hi, b_iter,
    result,         \* the remaining fields of the returned object
    s_k,            \* runSensitivity: index of the parameter being perturbed
    s_run,          \* runSensitivity: the latest perturbed run, its inputs and years
    s_npv_lo,       \* runSensitivity: npv_lo of the current parameter
    s_entries,      \* runSensitivity: the entries mapped so far
    sensitivity,    \* the sequence returned by runSensitivity
    rerun,          \* a later invocation of runFinancialModel on equal inputs
    scenario,       \* FinancialApp: the scenario state
    editing,        \* SliderInput: the slider whose edit box is open, if any
    editVal,        \* SliderInput: the editVal of the open edit box
    changes         \* the number of onChange and applyScenario calls so far

engineVars == <<y, years, cumulative_dcf, cumulative_cf_undiscounted,
                payback_disc, payback_simple, NPV, IRR, lo, hi, iter,
                LCCC, CR_breakeven, b_lo, b_hi, b_iter, result>>

sensVars == <<s_k, s_run, s_npv_lo, s_entries, sensitivity>>

uiVars == <<scenario, editing, editVal, changes>>

vars == <<variant, inputs, pc, engineVars, sensVars, rerun, uiVars>>

\* state of a run at the top of the year loop
Init ==
    /\ variant \in Engines
    /\ inputs \in InputSet(variant)
    /\ pc = "years"
    /\ y = 0
    /\ years = <<>>
    /\ cumulative_dcf = I(0)
    /\ cumulative_cf_undiscounted = I(0)
    /\ payback_disc = Null
    /\ payback_simple = Null
    /\ NPV = Null
    /\ IRR = Null
    /\ lo = IrrLo0 /\ hi = IrrHi0 /\ iter = 0
    /\ LCCC = Null
    /\ CR_breakeven = Null
    /\ b_lo = BeLo0 /\ b_hi = BeHi0 /\ b_iter = 0
    /\ result = Null
    /\ s_k = 0
    /\ s_run = Null
    /\ s_npv_lo = Null
    /\ s_entries = <<>>
    /\ sensitivity = Null
    /\ rerun = Null
    /\ scenario = "custom"
    /\ editing = Null
    /\ editVal = Null
    /\ changes = 0

\* one iteration of  for (let y = 0; y <= T_project; y++)
YearStep ==
    /\ pc = "years"
    /\ y <= inputs.T_project
    /\ years' = Append(years, YearRecord(variant, inputs, unit_capex(inputs), y,
                                         cumulative_dcf))
    /\ cumulative_dcf' = years'[Len(years')].cumulative_dcf
    /\ cumulative_cf_undiscounted' =
           RAdd(cumulative_cf_undiscounted, years'[Len(years')].CF)
    /\ payback_disc' = PaybackUpdate(payback_disc, cumulative_dcf', y)
    /\ payback_simple' = PaybackUpdate(payback_simple, cumulative_cf_undiscounted', y)
    /\ y' = y + 1
    /\ UNCHANGED <<uiVars, rerun, variant, inputs, pc, NPV, IRR, lo, hi, iter, LCCC, CR_breakeven,
                   b_lo, b_hi, b_iter, result, sensVars>>

\* loop exit: NPV, and the IRR bracket
EndYears ==
    /\ pc = "years"
    /\ y > inputs.T_project
    /\ NPV' = Some(cumulative_dcf)
    /\ lo' = IrrLo0 /\ hi' = IrrHi0 /\ iter' = 0
    /\ pc' = "irr"
    /\ UNCHANGED <<uiVars, rerun, variant, inputs, y, years, cumulative_dcf,
                   cumulative_cf_undiscounted, payback_disc, payback_simple, IRR,
                   LCCC, CR_breakeven, b_lo, b_hi, b_iter, result, sensVars>>

\* one iteration of the IRR bisection, with its break test
IrrStep ==
    /\ pc = "irr"
    /\ iter < IrrMaxIter
    /\ LET br == IrrNext(years, lo, hi)
       IN  lo' = br.lo /\ hi' = br.hi
    /\ iter' = iter + 1
    /\ pc' = IF RLt(RAbs(RSub(hi', lo')), IrrWidth) \/ iter' >= IrrMaxIter
             THEN "metrics" ELSE "irr"
    /\ UNCHANGED <<uiVars, rerun, variant, inputs, y, years, cumulative_dcf,
                   cumulative_cf_undiscounted, payback_disc, payback_simple, NPV, IRR,
                   LCCC, CR_breakeven, b_lo, b_hi, b_iter, result, sensVars>>

\* IRR from the final bracket, LCCC, and the breakeven bracket
Metrics ==
    /\ pc = "metrics"
    /\ IRR' = IrrResult(lo, hi)
    /\ LCCC' = Some(LCCCOf(inputs, years))
    /\ b_lo' = BeLo0 /\ b_hi' = BeHi0 /\ b_iter' = 0
    /\ pc' = "breakeven"
    /\ UNCHANGED <<uiVars, rerun, variant, inputs, y, years, cumulative_dcf,
                   cumulative_cf_undiscounted, payback_disc, payback_simple, NPV,
                   lo, hi, iter, CR_breakeven, result, sensVars>>

\* one iteration of the breakeven bisection, with its break test
BreakevenStep ==
    /\ pc = "breakeven"
    /\ b_iter < BeMaxIter
    /\ LET br == BeNext(variant, inputs, years, b_lo, b_hi)
       IN  b_lo' = br.lo /\ b_hi' = br.hi
    /\ b_iter' = b_iter + 1
    /\ pc' = IF RLt(RAbs(RSub(b_hi', b_lo')), BeWidth) \/ b_iter' >= BeMaxIter
             THEN "finish" ELSE "breakeven"
    /\ UNCHANGED <<uiVars, rerun, variant, inputs, y, years, cumulative_dcf,
                   cumulative_cf_undiscounted, payback_disc, payback_simple, NPV, IRR,
                   lo, hi, iter, LCCC, CR_breakeven, result, sensVars>>

\* breakeven price, year-1 figures, threshold year, warnings, return
Finish ==
    /\ pc = "finish"
    /\ CR_breakeven' = Some(RDiv(RAdd(b_lo, b_hi), I(2)))
    /\ LET yr1 == IF Len(years) >= 2 THEN years[2] ELSE years[1]
       IN  result' = Some(
             [ CO2_tpy |-> CO2_tpy(inputs), CO2_fleet_yr1 |-> yr1.CO2_fleet,
               CAPEX_unit1 |-> CAPEX_unit1(inputs),
               capex_fleet_total |-> capex_fleet_total(inputs),
               unit_capex |-> unit_capex(inputs),
               R_per_ton_45Q |-> PerTon(yr1, yr1.R_45Q),
               R_per_ton_VCM |-> PerTon(yr1, yr1.R_VCM),
               R_per_ton_offtake |-> PerTon(yr1, yr1.R_offtake),
               R_per_ton_comply |-> PerTon(yr1, yr1.R_comply),
               threshold_year |-> IF variant = "extended"
                                  THEN ThresholdYear(years, 1) ELSE Null,
               warnings |-> WarningsOf(variant, inputs, years, Val(NPV)),
               yr1_revenue |-> yr1.R_total, yr1_opex |-> yr1.OPEX ])
    /\ pc' = "done"
    /\ UNCHANGED <<uiVars, rerun, variant, inputs, y, years, cumulative_dcf,
                   cumulative_cf_undiscounted, payback_disc, payback_simple, NPV, IRR,
                   lo, hi, iter, LCCC, b_lo, b_hi, b_iter, sensVars>>

\* FinancialApp: runSensitivity(inputs, results.NPV) once the results are in
SensStart ==
    /\ pc = "done"
    /\ s_k' = 1
    /\ s_entries' = <<>>
    /\ pc' = "sens_lo"
    /\ UNCHANGED <<uiVars, rerun, variant, inputs, engineVars, s_run, s_npv_lo, sensitivity>>

\* the map callback for params[s_k]: the run on lo_inputs
SensRunLo ==
    /\ pc = "sens_lo"
    /\ s_run' = Some(RunOn(variant, Perturbed(inputs, SensParams[s_k], SensLoFactor)))
    /\ s_npv_lo' = Some(NPVOfYears(Val(s_run').years))
    /\ pc' = "sens_hi"
    /\ UNCHANGED <<uiVars, rerun, variant, inputs, engineVars, s_k, s_entries, sensitivity>>

\* the map callback for params[s_k]: the run on hi_inputs, and the entry
SensRunHi ==
    /\ pc = "sens_hi"
    /\ s_run' = Some(RunOn(variant, Perturbed(inputs, SensParams[s_k], SensHiFactor)))
    /\ s_entries' = Append(s_entries,
           SensEntry(inputs, s_k, Val(s_npv_lo), NPVOfYears(Val(s_run').years)))
    /\ s_k' = s_k + 1
    /\ pc' = IF s_k' > Len(SensParams) THEN "sens_sort" ELSE "sens_lo"
    /\ UNCHANGED <<uiVars, rerun, variant, inputs, engineVars, s_npv_lo, sensitivity>>

\* .sort((a, b) => b.delta - a.delta) on the mapped array, and return
SensSort ==
    /\ pc = "sens_sort"
    /\ sensitivity' = Some(SortEntries(s_entries, Len(s_entries)))
    /\ pc' = "sens_done"
    /\ UNCHANGED <<uiVars, rerun, variant, inputs, engineVars, s_k, s_run, s_npv_lo, s_entries>>

\* FinancialApp: results = useMemo(() => runFinancialModel(inputs), [inputs])
\* evaluated again on an input object with the same values, after the sweep
\* of runSensitivity has made its 16 invocations
ReInvoke ==
    /\ pc = "sens_done"
    /\ rerun = Null
    /\ rerun' = Some(RunOn(variant, inputs))
    /\ UNCHANGED <<uiVars, variant, inputs, pc, engineVars, sensVars>>

Next ==
    \/ YearStep \/ EndYears \/ IrrStep \/ Metrics \/ BreakevenStep \/ Finish
    \/ SensStart \/ SensRunLo \/ SensRunHi \/ SensSort \/ ReInvoke

Spec == Init /\ [][Next]_vars

\* ------------------------------------------------------------------------
\* The presentation layer: FinancialApp with its SliderInput components.
\* The variables inputs and variant are the component's inputs state and the
\* configuration it is built for; all numeric inputs, T_project included, are
\* numbers as the sliders deliver them.  The engine is not stepped here: on
\* every change the component hands inputs to runFinancialModel and to
\* runSensitivity (the results and sensitivity memos).
\* ------------------------------------------------------------------------

\* the number of onChange and applyScenario calls followed
MaxChanges == 2

\* <SliderInput value={inputs[key]} onChange={set(key)} min max />
Slider(key, min, max) == [key |-> key, min |-> min, max |-> max]

CommonSliders ==
    { Slider("CO2_tpd", Q(1, 2), I(10)), Slider("f_avail", Q(7, 10), Q(99, 100)),
      Slider("W_total", I(10), I(200)),
      Slider("CR_45Q", I(0), I(200)), Slider("f_45Q", I(0), I(1)),
      Slider("r_CPI", I(0), I(5)),
      Slider("P_offtake", I(0), I(200)), Slider("f_offtake", I(0), I(1)),
      Slider("P_VCM", I(0), I(200)), Slider("f_VCM", I(0), I(1)),
      Slider("P_comply", I(0), I(200)), Slider("f_comply", I(0), I(1)),
      Slider("C_vessels", I(20000), I(200000)), Slider("C_adsorbent", I(5000), I(50000)),
      Slider("C_HX", I(5000), I(60000)), Slider("C_blower", I(5000), I(40000)),
      Slider("C_valves", I(10000), I(80000)), Slider("C_controls", I(10000), I(50000)),
      Slider("C_pretreat", I(5000), I(60000)), Slider("C_electrical", I(5000), I(30000)),
      Slider("C_piping", I(8000), I(40000)), Slider("C_container", I(5000), I(20000)),
      Slider("f_install", Q(1, 10), Q(7, 20)), Slider("f_engineering", Q(2, 25), Q(1, 4)),
      Slider("P_elec", Q(3, 100), Q(1, 5)), Slider("T_ads_life", I(3), I(15)),
      Slider("C_valve_maint", I(2000), I(15000)), Slider("C_cal", I(2000), I(12000)),
      Slider("f_insurance", Q(1, 2), I(3)), Slider("f_maint", I(1), I(5)),
      Slider("r_disc", I(4), I(20)), Slider("T_project", I(5), I(30)),
      Slider("N_units", I(1), I(50)), Slider("LR", Q(3, 4), Q(19, 20)),
      Slider("units_per_year", I(1), I(10)) }

\* the sliders of the greenhouse pathway, in src/src/App.jsx only
ExtendedSliders ==
    CommonSliders
        \cup { Slider("f_greenhouse", I(0), I(1)), Slider("P_greenhouse", I(30), I(150)) }

Sliders(v) == IF v = "extended" THEN ExtendedSliders ELSE CommonSliders

SliderKeys(v) == { s.key : s \in Sliders(v) }

SliderOf(v, key) == CHOOSE s \in Sliders(v) : s.key = key

\* { ...prev, ...over }
Spread(prev, over) ==
    [k \in DOMAIN prev \cup DOMAIN over |-> IF k \in DOMAIN over THEN over[k] ELSE prev[k]]

\* Scenario Presets
SCENARIOS(v) ==
    LET gh(b) == IF v = "extended" THEN [gh_45Q_eligible |-> b] ELSE << >>
    IN  [ conservative |->
            Spread([ CR_45Q |-> I(50), P_VCM |-> I(15), f_45Q |-> I(0), f_offtake |-> I(1),
                     f_VCM |-> I(0), P_offtake |-> I(50), f_avail |-> Q(4, 5),
                     f_install |-> Q(1, 4), P_elec |-> Q(3, 25), N_units |-> I(1),
                     r_disc |-> I(12) ], gh(FALSE)),
          base |->
            Spread([ CR_45Q |-> I(85), P_VCM |-> I(40), f_45Q |-> Q(1, 2),
                     f_offtake |-> Q(1, 2), f_VCM |-> I(0), P_offtake |-> I(70),
                     f_avail |-> Q(9, 10), f_install |-> Q(1, 5), P_elec |-> Q(2, 25),
                     N_units |-> I(4), r_disc |-> I(10) ], gh(FALSE)),
          optimistic |->
            Spread([ CR_45Q |-> I(120), P_VCM |-> I(80), f_45Q |-> Q(4, 5),
                     f_offtake |-> Q(1, 5), f_VCM |-> I(0), P_offtake |-> I(100),
                     f_avail |-> Q(19, 20), f_install |-> Q(3, 20), P_elec |-> Q(1, 20),
                     N_units |-> I(10), r_disc |-> I(8) ], gh(TRUE)) ]

\* useState({ CO2_tpd: 3.5, ... })
InitialInputs(v) ==
    Spread(
      [ CO2_tpd |-> Q(7, 2), f_avail |-> Q(9, 10), E_spec |-> I(1200), W_total |-> I(65),
        CR_45Q |-> I(85), f_45Q |-> Q(1, 2), T_45Q |-> I(12), Y_45Q_infl |-> I(2027),
        r_CPI |-> Q(5, 2),
        P_VCM |-> I(40), f_VCM |-> I(0), r_VCM |-> I(3),
        P_offtake |-> I(70), f_offtake |-> Q(1, 2), r_offtake |-> I(2),
        P_comply |-> I(0), f_comply |-> I(0),
        C_vessels |-> I(60000), C_adsorbent |-> I(20000), C_HX |-> I(20000),
        C_blower |-> I(15000), C_valves |-> I(35000), C_compressor |-> I(5000),
        C_pretreat |-> I(15000), C_controls |-> I(25000), C_electrical |-> I(12000),
        C_piping |-> I(18000), C_container |-> I(12000),
        f_install |-> Q(1, 5), f_engineering |-> Q(3, 20),
        P_elec |-> Q(2, 25), T_ads_life |-> I(7), C_valve_maint |-> I(5000),
        C_cal |-> I(5000), f_insurance |-> Q(3, 2), C_monitor |-> I(3000),
        f_maint |-> I(3), r_OPEX |-> I(2),
        r_disc |-> I(10), T_project |-> I(20), Y_start |-> I(2026), r_rev |-> I(2),
        N_units |-> I(4), LR |-> Q(17, 20), units_per_year |-> I(2) ],
      IF v = "extended"
      THEN [ Q_thresh_45Q |-> I(12500), gh_45Q_eligible |-> FALSE,
             f_greenhouse |-> I(0), P_greenhouse |-> I(70) ]
      ELSE << >>)

\* the texts typed into the edit box
TypedTexts == {"abc", "-1", "1e6", "12.5"}

\* String(value): the decimal text of a number, which parses back to it; a
\* text is the typed characters, or the decimal text of a number
StringOf(value) == [typed |-> "", of |-> Some(value)]

\* parseFloat(editVal); "abc" gives NaN
ParseFloat(text) ==
    IF text.of # Null THEN Val(text.of)
    ELSE CASE text.typed = "-1" -> I(-1)
           [] text.typed = "1e6" -> I(1000000)
           [] text.typed = "12.5" -> Q(25, 2)
           [] OTHER -> NaN

\* set(key)(val): setInputs(prev => ({ ...prev, [key]: val })); setScenario("custom")
set(key, val) ==
    /\ changes < MaxChanges
    /\ inputs' = [inputs EXCEPT ![key] = val]
    /\ scenario' = "custom"
    /\ changes' = changes + 1

\* SliderInput: a click on the displayed value opens the edit box.  At most
\* one box is open, the one with the focus; the editVal of a closed box is
\* never read, as a click overwrites it.
handleClick(key) ==
    /\ changes < MaxChanges
    /\ editing = Null
    /\ editing' = Some(key)
    /\ editVal' = Some(StringOf(inputs[key]))
    /\ UNCHANGED <<variant, inputs, scenario, changes, pc, engineVars, sensVars, rerun>>

\* SliderInput: typing in the edit box, setEditVal(e.target.value)
setEditVal(key) ==
    /\ editing = Some(key)
    /\ \E t \in TypedTexts : editVal' = Some([typed |-> t, of |-> Null])
    /\ UNCHANGED <<variant, inputs, scenario, editing, changes, pc, engineVars, sensVars, rerun>>

\* a blur that commits the parsed value as typed
handleBlur_unclamped(key) ==
    /\ editing = Some(key)
    /\ editing' = Null
    /\ editVal' = Null
    /\ IF ~IsNaN(ParseFloat(Val(editVal)))
       THEN set(key, ParseFloat(Val(editVal)))
       ELSE UNCHANGED <<inputs, scenario, changes>>
    /\ UNCHANGED <<variant, pc, engineVars, sensVars, rerun>>

\* SliderInput: the edit box loses the focus
handleBlur(key) ==
    /\ editing = Some(key)
    /\ editing' = Null
    /\ editVal' = Null
    /\ IF ~IsNaN(ParseFloat(Val(editVal)))
       THEN set(key, RMin(SliderOf(variant, key).max,
                          RMax(SliderOf(variant, key).min, ParseFloat(Val(editVal)))))
       ELSE UNCHANGED <<inputs, scenario, changes>>
    /\ UNCHANGED <<variant, pc, engineVars, sensVars, rerun>>

\* SliderInput: a key pressed in the edit box; Enter commits as a blur does,
\* Escape closes the box
handleKey(key) ==
    \E e_key \in {"Enter", "Escape"} :
        IF e_key = "Enter" THEN handleBlur(key)
        ELSE /\ editing = Some(key)
             /\ editing' = Null
             /\ editVal' = Null
             /\ UNCHANGED <<variant, inputs, scenario, changes, pc, engineVars,
                            sensVars, rerun>>

\* SliderInput: the range input moved, onChange(parseFloat(e.target.value));
\* the browser keeps the value of a range input between its min and max
RangeChange(key) ==
    /\ editing = Null
    /\ \E val \in {SliderOf(variant, key).min, SliderOf(variant, key).max} : set(key, val)
    /\ UNCHANGED <<variant, editing, editVal, pc, engineVars, sensVars, rerun>>

\* Toggle: onChange(!value) on the greenhouse eligibility
Toggle ==
    /\ variant = "extended"
    /\ editing = Null
    /\ set("gh_45Q_eligible", ~inputs.gh_45Q_eligible)
    /\ UNCHANGED <<variant, editing, editVal, pc, engineVars, sensVars, rerun>>

\* a click on one of the four scenario buttons
applyScenario(name) ==
    /\ changes < MaxChanges
    /\ editing = Null
    /\ scenario' = name
    /\ inputs' = IF name \in DOMAIN SCENARIOS(variant)
                 THEN Spread(inputs, SCENARIOS(variant)[name]) ELSE inputs
    /\ changes' = changes + 1
    /\ UNCHANGED <<variant, editing, editVal, pc, engineVars, sensVars, rerun>>

\* the component as mounted
UIInit ==
    /\ variant \in Engines
    /\ inputs = InitialInputs(variant)
    /\ scenario = "base"
    /\ editing = Null
    /\ editVal = Null
    /\ changes = 0
    /\ pc = "ui"
    /\ y = 0
    /\ years = <<>>
    /\ cumulative_dcf = I(0)
    /\ cumulative_cf_undiscounted = I(0)
    /\ payback_disc = Null
    /\ payback_simple = Null
    /\ NPV = Null
    /\ IRR = Null
    /\ lo = IrrLo0 /\ hi = IrrHi0 /\ iter = 0
    /\ LCCC = Null
    /\ CR_breakeven = Null
    /\ b_lo = BeLo0 /\ b_hi = BeHi0 /\ b_iter = 0
    /\ result = Null
    /\ s_k = 0
    /\ s_run = Null
    /\ s_npv_lo = Null
    /\ s_entries = <<>>
    /\ sensitivity = Null
    /\ rerun = Null

UINext ==
    \/ \E key \in SliderKeys(variant) : handleClick(key)
    \/ \E key \in SliderKeys(variant) : setEditVal(key)
    \/ \E key \in SliderKeys(variant) : handleBlur(key)
    \/ \E key \in SliderKeys(variant) : handleKey(key)
    \/ \E key \in SliderKeys(variant) : RangeChange(key)
    \/ Toggle
    \/ \E name \in {"conservative", "base", "optimistic", "custom"} : applyScenario(name)

UISpec == UIInit /\ [][UINext]_vars

\* ------------------------------------------------------------------------
\* Properties
\* ------------------------------------------------------------------------

\* sum over the first k records of CF / (1 + r_disc/100)^y, from the CF fields
RECURSIVE SumDiscountedCF(_, _, _)
SumDiscountedCF(inp, yrs, k) ==
    IF k = 0 THEN I(0)
    ELSE RAdd(SumDiscountedCF(inp, yrs, k - 1),
              RDiv(yrs[k].CF, RPow(RAdd(I(1), RDiv(inp.r_disc, I(100))), yrs[k].y)))

\* C1: the NPV of a run equals the cumulative_dcf field of the last record of
\* years, and that equals the sum over y = 0..T_project of
\* CF(y) / (1 + r_disc/100)^y.
C1_NpvIsFinalCumulativeDcf ==
    NPV # Null =>
        /\ Len(years) = inputs.T_project + 1
        /\ \A k \in 1..Len(years) : years[k].y = k - 1
        /\ Val(NPV) = years[Len(years)].cumulative_dcf
        /\ Val(NPV) = SumDiscountedCF(inputs, years, Len(years))

\* a finished run over the longest horizon, discounted, with a positive NPV
C1_Witness ==
    /\ pc = "done" /\ Len(years) = MaxT + 1
    /\ RGt(inputs.r_disc, I(0)) /\ RGt(Val(NPV), I(0))

\* sum of |CF| over the records
RECURSIVE SumAbsCF(_, _)
SumAbsCF(cfs, k) == IF k = 0 THEN I(0) ELSE RAdd(SumAbsCF(cfs, k - 1), RAbs(cfs[k]))

\* the bound on |sum of CF/(1+r)^y| that a root within IrrWidth of r implies,
\* for 1 + r > 1/2: the slope of the sum is at most the sum of
\* y * |CF(y)| * 2^(y+1)
IrrTolerance(cfs) ==
    RMul(RMul(IrrWidth, I(Len(cfs) * 2 ^ Len(cfs))), SumAbsCF(cfs, Len(cfs)))

\* C2: a non-null IRR is the midpoint of a bracket inside [-0.5, 2.0], less
\* than 0.0001 wide, across which the sum of CF(y)/(1+r)^y changes sign
\* (positive at the lower end, not positive at the upper end), and the sum at
\* the IRR is within the tolerance that width implies; so when the sum keeps
\* one sign over the whole search bracket the IRR is null.
C2_IrrWithinTolerance ==
    (pc \notin {"years", "irr", "metrics"} /\ IRR # Null) =>
        LET cfs == CashFlows(years)
        IN  /\ RLe(IrrLo0, lo) /\ RLe(hi, IrrHi0)
            /\ RLt(RSub(hi, lo), IrrWidth)
            /\ RLe(lo, Val(IRR)) /\ RLe(Val(IRR), hi)
            /\ NpvSign(cfs, RAdd(I(1), lo)) = I(1)
            /\ NpvSign(cfs, RAdd(I(1), hi)) \in {I(0), I(-1)}
            /\ NpvAbsLe(cfs, RAdd(I(1), Val(IRR)), IrrTolerance(cfs))

\* a finished run that reports an IRR
C2_Witness == pc = "done" /\ IRR # Null
\* 1 + r_disc / 100
OnePlusR(inp) == RAdd(I(1), RDiv(inp.r_disc, I(100)))

\* the records' cash flows with the incentive revenue recomputed at a price
\* are all finite
BeFinite(v, inp, yrs) ==
    \A k \in 1..Len(yrs) : IsFinite(BeCashFlow(v, inp, yrs[k], I(0)))

\* the discounted incentive revenue per unit of price: the slope of the
\* search's NPV in the price
RECURSIVE BeSlope(_, _, _, _)
BeSlope(v, inp, yrs, k) ==
    IF k = 0 THEN I(0)
    ELSE RAdd(BeSlope(v, inp, yrs, k - 1),
              RDiv(RSub(BeCashFlow(v, inp, yrs[k], I(1)),
                        BeCashFlow(v, inp, yrs[k], I(0))),
                   RPow(OnePlusR(inp), yrs[k].y)))

\* C3 as stated: the NPV recomputed at the returned breakeven price p* is
\* within about 1 currency unit of zero.
C3_Original_NpvWithinOneUnit ==
    (CR_breakeven # Null /\ BeFinite(variant, inputs, years)) =>
        NpvAbsLe(BeCashFlows(variant, inputs, years, Val(CR_breakeven)),
                 OnePlusR(inputs), I(1))

\* C3 amended: the returned breakeven price p* is the midpoint of the final
\* bracket of the search, which lies in [0, 300] and is less than 0.5 wide;
\* its lower end is 0 or a price at which the recomputed NPV is negative,
\* its upper end is 300 or a price at which the recomputed NPV is not
\* negative; and when both ends have moved, |NPV(p*)| is at most 0.25 times
\* the discounted incentive revenue per unit of price.
C3_BreakevenBracket ==
    CR_breakeven # Null =>
        /\ RLe(BeLo0, b_lo) /\ RLe(b_lo, b_hi) /\ RLe(b_hi, BeHi0)
        /\ RLt(RSub(b_hi, b_lo), BeWidth)
        /\ Val(CR_breakeven) = RDiv(RAdd(b_lo, b_hi), I(2))
        /\ b_lo = BeLo0 \/ RLt(BeTestSign(variant, inputs, years, b_lo), I(0))
        /\ b_hi = BeHi0 \/ ~RLt(BeTestSign(variant, inputs, years, b_hi), I(0))
        /\ (b_lo # BeLo0 /\ b_hi # BeHi0) =>
              /\ BeFinite(variant, inputs, years)
              /\ NpvAbsLe(BeCashFlows(variant, inputs, years, Val(CR_breakeven)),
                          OnePlusR(inputs),
                          RMul(RDiv(BeWidth, I(2)),
                               BeSlope(variant, inputs, years, Len(years))))

\* a finished run whose search bracket moved at both ends
C3_Witness == pc = "done" /\ b_lo # BeLo0 /\ b_hi # BeHi0
\* sum of the CF fields of the first k records
RECURSIVE SumCF(_, _)
SumCF(yrs, k) == IF k = 0 THEN I(0) ELSE RAdd(SumCF(yrs, k - 1), yrs[k].CF)

\* the year offsets 1..T_project among the records so far at which the
\* cumulative discounted, resp. undiscounted, cash flow is >= 0
DiscNonNegYears ==
    { k - 1 : k \in { j \in 2..Len(years) :
                        RGe(SumDiscountedCF(inputs, years, j), I(0)) } }
SimpleNonNegYears ==
    { k - 1 : k \in { j \in 2..Len(years) : RGe(SumCF(years, j), I(0)) } }

\* the smallest element of a set of year offsets, null for the empty set
FirstOf(S) == IF S = {} THEN Null ELSE Some(CHOOSE m \in S : \A n \in S : m <= n)

\* the payback years are the first such year offsets in 1..T_project, null
\* when there is none, and never 0
PaybackIsFirstNonNegYear ==
    /\ payback_disc = FirstOf(DiscNonNegYears)
    /\ payback_simple = FirstOf(SimpleNonNegYears)
    /\ payback_disc # Some(0) /\ payback_simple # Some(0)

\* a payback year once set is not changed
PaybackKept ==
    /\ payback_disc # Null => payback_disc' = payback_disc
    /\ payback_simple # Null => payback_simple' = payback_simple

\* C4: payback_disc is the smallest year offset y with 1 <= y <= T_project at
\* which the cumulative discounted cash flow is >= 0, payback_simple the
\* smallest at which the cumulative undiscounted cash flow is >= 0, each null
\* when there is no such year; neither is ever 0, and neither changes once
\* it is set.
C4_PaybackFirstYear == [](PaybackIsFirstNonNegYear) /\ [][PaybackKept]_vars

\* a finished run in which the cash flow is already non-negative in year 0,
\* the discounted payback is a later year than the simple payback, and the
\* cumulative cash flows stay non-negative after the payback years
C4_Witness ==
    /\ pc = "done" /\ Len(years) = MaxT + 1
    /\ RGe(years[1].CF, I(0)) /\ payback_simple = Some(1)
    /\ Cardinality(SimpleNonNegYears) > 1
\* the N_deployed fields of a run's records are nondecreasing in y, at least
\* 1 in year 0, and at most the run's N_units in every year
FleetWithinBounds(inp, yrs) ==
    /\ \A k \in 1..Len(yrs) : RLe(yrs[k].N_deployed, inp.N_units)
    /\ \A k \in 2..Len(yrs) : RLe(yrs[k - 1].N_deployed, yrs[k].N_deployed)
    /\ yrs # <<>> => RGe(yrs[1].N_deployed, I(1))

\* C5: in every year record of every run of the pipeline (the run on the
\* inputs and the perturbed runs of runSensitivity), the deployed-unit count
\* is nondecreasing in y, is at least 1 in year 0, and never exceeds N_units.
C5_FleetWithinBounds ==
    /\ FleetWithinBounds(inputs, years)
    /\ s_run # Null => FleetWithinBounds(Val(s_run).inputs, Val(s_run).years)
\* the four allocation fractions of an input set are all 0
NoAllocation(inp) ==
    /\ inp.f_45Q = I(0) /\ inp.f_VCM = I(0)
    /\ inp.f_offtake = I(0) /\ inp.f_comply = I(0)

\* C6: if the four allocation fractions f_45Q, f_VCM, f_offtake and f_comply
\* are all 0, R_total is 0 in every year record, whatever the other inputs
\* (the greenhouse fraction, toggle and price included).
C6_NoAllocationNoRevenue ==
    NoAllocation(inputs) => \A k \in 1..Len(years) : years[k].R_total = I(0)

\* the records of a run on the inputs inp have a non-zero R_45Q only in
\* years y <= T_45Q, with f_45Q > 0, and with the eligibility gate passing
\* (fleet output >= Q_thresh_45Q in the extended engine, always in the
\* simple one)
IncentiveOnlyWhenDue(v, inp, yrs) ==
    \A k \in 1..Len(yrs) :
        yrs[k].R_45Q # I(0) =>
            /\ RLe(I(yrs[k].y), inp.T_45Q)
            /\ RGt(inp.f_45Q, I(0))
            /\ v = "extended" => RGe(yrs[k].CO2_fleet, inp.Q_thresh_45Q)

\* C7: in every year record R_45Q is non-zero only if y <= T_45Q, f_45Q > 0
\* and the eligibility gate passes for the year; so with f_45Q = 0 it is 0 in
\* every year, whatever the rate, window, eligibility and greenhouse
\* settings.
C7_IncentiveOnlyWhenDue ==
    /\ IncentiveOnlyWhenDue(variant, inputs, years)
    /\ s_run # Null =>
          IncentiveOnlyWhenDue(variant, Val(s_run).inputs, Val(s_run).years)
    /\ inputs.f_45Q = I(0) => \A k \in 1..Len(years) : years[k].R_45Q = I(0)

\* a finished run of the extended engine with a threshold, in which a year
\* inside the window earns no 45Q revenue because the fleet is below the
\* threshold and a later year earns it
C7_Witness ==
    /\ pc = "done" /\ variant = "extended"
    /\ RGt(inputs.Q_thresh_45Q, I(0)) /\ RGt(inputs.f_45Q, I(0))
    /\ \E j, k \in 1..Len(years) :
          /\ years[j].R_45Q = I(0) /\ RLe(I(years[j].y), inputs.T_45Q)
          /\ years[k].R_45Q # I(0)

\* the eleven equipment line items
EquipmentItems ==
    << "C_vessels", "C_adsorbent", "C_HX", "C_blower", "C_valves", "C_compressor",
       "C_pretreat", "C_controls", "C_electrical", "C_piping", "C_container" >>

RECURSIVE SumItems(_, _)
SumItems(inp, k) ==
    IF k = 0 THEN I(0) ELSE RAdd(SumItems(inp, k - 1), inp[EquipmentItems[k]])

\* the first element of the schedule computed from inp exists and equals
\* (sum of the eleven line items) * (1 + f_install + f_engineering)
FirstUnitAtFullCost(inp) ==
    /\ unit_capex(inp) # <<>>
    /\ unit_capex(inp)[1] =
          RMul(SumItems(inp, Len(EquipmentItems)),
               RAdd(RAdd(I(1), inp.f_install), inp.f_engineering))

\* C8 as stated: for all inputs, and so for every learning rate LR, the first
\* element of the unit capital-cost schedule equals CAPEX_unit1.
C8_Original_FirstUnitForEveryLR ==
    /\ FirstUnitAtFullCost(inputs)
    /\ result # Null => Val(result).unit_capex[1] = Val(result).CAPEX_unit1

\* C8 amended: for every learning rate LR > 0 (and N_units >= 1, so that the
\* schedule has a first element) the first element of the schedule equals
\* CAPEX_unit1 = (sum of the eleven line items) * (1 + f_install +
\* f_engineering), in the run on the inputs and in the perturbed runs of
\* runSensitivity.
C8_FirstUnitForPositiveLR ==
    /\ (RGt(inputs.LR, I(0)) /\ RGe(inputs.N_units, I(1))) =>
          /\ FirstUnitAtFullCost(inputs)
          /\ result # Null => Val(result).unit_capex[1] = Val(result).CAPEX_unit1
    /\ (s_run # Null /\ RGt(Val(s_run).inputs.LR, I(0))
          /\ RGe(Val(s_run).inputs.N_units, I(1))) =>
          FirstUnitAtFullCost(Val(s_run).inputs)

\* a finished run with a learning rate below 1 and a second unit cheaper than
\* the first
C8_Witness ==
    /\ pc = "done" /\ RLt(inputs.LR, I(1)) /\ Len(Val(result).unit_capex) >= 2
    /\ RLt(Val(result).unit_capex[2], Val(result).unit_capex[1])

\* C9: with T_project = 0 the returned years has exactly one record, that of
\* y = 0, the NPV equals that record's CF, and both paybacks are null, also
\* when CF(0) >= 0.
C9_ZeroHorizon ==
    (inputs.T_project = 0 /\ NPV # Null) =>
        /\ Len(years) = 1 /\ years[1].y = 0
        /\ Val(NPV) = years[1].CF
        /\ payback_disc = Null /\ payback_simple = Null

\* a finished run with T_project = 0 and a non-negative cash flow in year 0
C9_Witness ==
    pc = "done" /\ inputs.T_project = 0 /\ RGe(years[1].CF, I(0))
\* the returned sequence out holds one entry for each of the 8 parameter
\* keys, each with delta = |npv_hi - npv_lo| >= 0, in an order in which delta
\* does not increase
RankedByDelta(out) ==
    /\ Len(out) = Len(SensParams)
    /\ \A i \in 1..Len(SensParams) :
          Cardinality({k \in 1..Len(out) : out[k].key = SensParams[i]}) = 1
    /\ \A k \in 1..Len(out) :
          /\ out[k].delta = RAbs(RSub(out[k].npv_hi, out[k].npv_lo))
          /\ RGe(out[k].delta, I(0))
    /\ \A k \in 1..(Len(out) - 1) : RGe(out[k].delta, out[k + 1].delta)

\* C10: for every base input set runSensitivity returns exactly 8 entries,
\* one for each of the 8 parameter keys, each with
\* delta = |npv_hi - npv_lo| >= 0, ordered so that delta is non-increasing;
\* and the ordering is applied only after all 16 perturbed runs have produced
\* their NPVs (the returned entries are the 8 mapped ones).
C10_SensitivityRanked ==
    sensitivity # Null =>
        /\ RankedByDelta(Val(sensitivity))
        /\ Len(s_entries) = Len(SensParams)
        /\ {Val(sensitivity)[k] : k \in 1..Len(Val(sensitivity))}
              = {s_entries[k] : k \in 1..Len(s_entries)}

\* a run on the inputs x divides by zero: a zero consumable service life in
\* C_ads_replace, or a discount factor (1 + r_disc/100)^y = 0 in a year y >= 1
DividesByZero(x) ==
    \/ x.T_ads_life = I(0)
    \/ (OnePlusR(x) = I(0) /\ x.T_project >= 1)

\* C11: in runSensitivity, when a perturbed run fails (it divides by zero),
\* the entry's NPV for that side is the base-case NPV the caller passed in;
\* the side whose run does not fail carries that run's NPV.
C11_FailedRunTakesBaseNpv ==
    /\ \A k \in 1..Len(s_entries) :
          /\ DividesByZero(Perturbed(inputs, SensParams[k], SensLoFactor))
                => s_entries[k].npv_lo = Val(NPV)
          /\ DividesByZero(Perturbed(inputs, SensParams[k], SensHiFactor))
                => s_entries[k].npv_hi = Val(NPV)
    /\ (pc \in {"sens_lo", "sens_sort"} /\ s_entries # <<>>
            /\ ~DividesByZero(Val(s_run).inputs))
          => s_entries[Len(s_entries)].npv_hi = NPVOfYears(Val(s_run).years)

\* position of a parameter key in the fixed 8-parameter list
ParamIndex(key) == CHOOSE i \in 1..Len(SensParams) : SensParams[i] = key

\* the perturbation of the entry's parameter changes no computed quantity:
\* its base value is 0, or it is a price of a stream with no allocation
NoInfluence(inp, e) ==
    \/ e.base_val = I(0)
    \/ (e.key = "CR_45Q" /\ inp.f_45Q = I(0))
    \/ (e.key = "P_offtake" /\ inp.f_offtake = I(0) /\ inp.f_greenhouse = I(0))

\* the ranking of the returned sequence out is stable
StableRanking(inp, out) ==
    /\ \A k \in 1..Len(out) :
          NoInfluence(inp, out[k]) =>
             /\ out[k].delta = I(0)
             /\ \A j \in 1..Len(out) : RGt(out[j].delta, I(0)) => j < k
    /\ \A i, j \in 1..Len(out) :
          (i < j /\ out[i].delta = out[j].delta)
             => ParamIndex(out[i].key) < ParamIndex(out[j].key)

\* C12: in the sequence returned by runSensitivity, a parameter whose
\* perturbation changes no computed quantity has delta = 0 and comes after
\* every entry with delta > 0, and entries with equal delta keep the order
\* of the fixed 8-parameter list.
C12_StableRanking ==
    sensitivity # Null => StableRanking(inputs, Val(sensitivity))

\* the sequence runSensitivity returns on the inputs inp, from the NPVs of
\* 16 fresh runs
SensitivityOf(v, inp) ==
    LET entries == [k \in 1..Len(SensParams) |->
                      SensEntry(inp, k,
                          NPVOfYears(RunYears(v, Perturbed(inp, SensParams[k], SensLoFactor))),
                          NPVOfYears(RunYears(v, Perturbed(inp, SensParams[k], SensHiFactor))))]
    IN  SortEntries(entries, Len(entries))

\* a later invocation on equal inputs returned the same year records and NPV,
\* and another sweep on them would return the same sequence
SameResultsAgain ==
    /\ rerun # Null =>
          /\ Val(rerun).inputs = inputs
          /\ Val(rerun).years = years
          /\ NPVOfYears(Val(rerun).years) = Val(NPV)
    /\ (sensitivity # Null /\ rerun # Null) =>
          Val(sensitivity) = SensitivityOf(variant, inputs)

\* no step modifies the input set; the invocations made after the results are
\* in (the 16 perturbed runs, the later run) leave those results as they were
NothingShared ==
    /\ inputs' = inputs /\ variant' = variant
    /\ result # Null => engineVars' = engineVars
    /\ rerun # Null => rerun' = rerun
    /\ sensitivity # Null => sensitivity' = sensitivity

WarningSet == {Val(result).warnings[k] : k \in 1..Len(Val(result).warnings)}

\* the sum of the four allocation fractions
AllocationSum(inp) == RAdd(RAdd(RAdd(inp.f_45Q, inp.f_VCM), inp.f_offtake), inp.f_comply)

\* C14: warnings never abort the computation: runFinancialModel returns the
\* complete result (all metrics and all T_project + 1 year records) together
\* with a warnings list that holds the allocation warning exactly when
\* f_45Q + f_VCM + f_offtake + f_comply > 1.01, the negative-NPV warning
\* exactly when NPV < 0, and, in the engine with the eligibility threshold,
\* the never-eligible warning exactly when f_45Q > 0 and no year record is
\* eligible.
C14_WarningsWithFullResult ==
    result # Null =>
        /\ pc # "years" /\ Len(years) = inputs.T_project + 1
        /\ \A k \in 1..Len(years) : years[k].y = k - 1
        /\ NPV # Null /\ LCCC # Null /\ CR_breakeven # Null
        /\ Val(result).unit_capex = unit_capex(inputs)
        /\ WarningSet \subseteq {"never_eligible", "allocation_exceeds", "npv_negative"}
        /\ Len(Val(result).warnings) = Cardinality(WarningSet)
        /\ "allocation_exceeds" \in WarningSet <=> RGt(AllocationSum(inputs), Q(101, 100))
        /\ "npv_negative" \in WarningSet <=> RLt(Val(NPV), I(0))
        /\ "never_eligible" \in WarningSet <=>
              /\ variant = "extended"
              /\ RGt(inputs.f_45Q, I(0))
              /\ \A k \in 1..Len(years) : ~years[k].is_45Q_eligible

\* a result returned with two warnings, the never-eligible one among them
C14_Witness ==
    /\ result # Null /\ Len(years) = MaxT + 1
    /\ WarningSet = {"never_eligible", "npv_negative"}

\* C15: non-convergence of either root-finder is never an error: on every
\* input set, also where no rate or price of the bracket gives a zero NPV,
\* the brackets stay inside their initial ones, the IRR search yields null
\* or a rate inside [-0.50, 2.00], and the breakeven search yields a number,
\* never null, that is the midpoint of its final bracket and lies inside
\* [0, 300].
C15_NonConvergenceIsNoError ==
    /\ RLe(IrrLo0, lo) /\ RLe(lo, hi) /\ RLe(hi, IrrHi0)
    /\ RLe(BeLo0, b_lo) /\ RLe(b_lo, b_hi) /\ RLe(b_hi, BeHi0)
    /\ IRR # Null => (RLe(IrrLo0, Val(IRR)) /\ RLe(Val(IRR), IrrHi0))
    /\ pc \in {"years", "irr", "metrics"} => IRR = Null
    /\ pc \in {"years", "irr", "metrics", "breakeven", "finish"} <=> CR_breakeven = Null
    /\ CR_breakeven # Null =>
          /\ IsFinite(Val(CR_breakeven))
          /\ Val(CR_breakeven) = RDiv(RAdd(b_lo, b_hi), I(2))
          /\ RLe(BeLo0, Val(CR_breakeven)) /\ RLe(Val(CR_breakeven), BeHi0)

\* a finished run in which neither search found a zero of the NPV: the cash
\* flows are not numbers, the IRR is null and the breakeven price is the
\* midpoint of a bracket still at 0
C15_Witness ==
    /\ pc = "done" /\ IsNaN(Val(NPV)) /\ IRR = Null
    /\ CR_breakeven # Null /\ b_lo = BeLo0

\* mean of the OPEX fields of the year records
RECURSIVE OpexTotal(_, _)
OpexTotal(yrs, k) == IF k = 0 THEN I(0) ELSE RAdd(yrs[k].OPEX, OpexTotal(yrs, k - 1))

\* the levelized cost the records and the fleet cost give at the rate r over
\* N years
LevelizedCost(inp, res, yrs) ==
    LET r == RDiv(inp.r_disc, I(100))
        N == inp.T_project
        growth == RPow(RAdd(I(1), r), N)
        crf == IF r = I(0) THEN RDiv(I(1), I(N))
               ELSE RDiv(RMul(r, growth), RSub(growth, I(1)))
        mean == RDiv(OpexTotal(yrs, Len(yrs)), I(Len(yrs)))
    IN  RDiv(RAdd(RMul(res.capex_fleet_total, crf), mean),
             RMul(inp.N_units, res.CO2_tpy))

\* C16: the returned LCCC equals (capex_fleet_total * CRF + mean OPEX over
\* the year records) / (N_units * per-unit annual output), with
\* CRF = r(1+r)^N / ((1+r)^N - 1) for a discount rate r > 0 and CRF = 1/N
\* for r = 0 (N = T_project); and LCCC is exactly 0 whenever N_units is zero
\* or the per-unit annual output is zero.
C16_LevelizedCost ==
    result # Null =>
        /\ (inputs.N_units = I(0) \/ Val(result).CO2_tpy = I(0)) => Val(LCCC) = I(0)
        /\ (RGt(inputs.N_units, I(0)) /\ RGt(Val(result).CO2_tpy, I(0))
               /\ RGe(inputs.r_disc, I(0)))
              => Val(LCCC) = LevelizedCost(inputs, Val(result), years)

\* a finished run at a zero discount rate with a positive finite LCCC
C16_Witness ==
    /\ result # Null /\ inputs.r_disc = I(0) /\ inputs.T_project = MaxT
    /\ IsFinite(Val(LCCC)) /\ RGt(Val(LCCC), I(0))

\* the iteration counts are within their caps, a search that has not ended
\* can take its next step, each bracket is the initial one halved once per
\* iteration, a search goes on only while its bracket is not yet narrow, and
\* has ended only on a narrow bracket or at its cap
SearchesBounded ==
    /\ iter \in 0..IrrMaxIter /\ b_iter \in 0..BeMaxIter
    /\ pc = "irr" => iter < IrrMaxIter
    /\ pc = "breakeven" => b_iter < BeMaxIter
    /\ RSub(hi, lo) = RDiv(RSub(IrrHi0, IrrLo0), RPow(I(2), iter))
    /\ RSub(b_hi, b_lo) = RDiv(RSub(BeHi0, BeLo0), RPow(I(2), b_iter))
    /\ (pc = "irr" /\ iter > 0) => (RGe(RSub(hi, lo), IrrWidth) /\ iter < IrrMaxIter)
    /\ pc \notin {"years", "irr"} => (RLt(RSub(hi, lo), IrrWidth) \/ iter = IrrMaxIter)
    /\ (pc = "breakeven" /\ b_iter > 0) =>
          (RGe(RSub(b_hi, b_lo), BeWidth) /\ b_iter < BeMaxIter)
    /\ pc \notin {"years", "irr", "metrics", "breakeven"} =>
          (RLt(RSub(b_hi, b_lo), BeWidth) \/ b_iter = BeMaxIter)

\* a step of a search replaces exactly one end of its bracket by the midpoint
\* and counts one iteration
HalvingStep ==
    /\ pc = "irr" =>
          /\ iter' = iter + 1
          /\ \/ (lo' = RDiv(RAdd(lo, hi), I(2)) /\ hi' = hi)
             \/ (hi' = RDiv(RAdd(lo, hi), I(2)) /\ lo' = lo)
    /\ pc = "breakeven" =>
          /\ b_iter' = b_iter + 1
          /\ \/ (b_lo' = RDiv(RAdd(b_lo, b_hi), I(2)) /\ b_hi' = b_hi)
             \/ (b_hi' = RDiv(RAdd(b_lo, b_hi), I(2)) /\ b_lo' = b_lo)

\* C17: both root-finders always terminate: the IRR bisection performs at
\* most 100 iterations and stops earlier once the bracket is narrower than
\* 0.0001, the breakeven bisection at most 80 and stops earlier once the
\* bracket is narrower than 0.5; each iteration replaces exactly one end by
\* the midpoint, so the width halves, on every cash-flow series, also one
\* with values that are not finite.
C17_SearchesTerminate == [](SearchesBounded) /\ [][HalvingStep]_vars

\* a finished run on cash flows that are not finite, both searches ended
\* before their caps
C17_Witness ==
    /\ pc = "done" /\ ~IsFinite(Val(NPV))
    /\ iter > 0 /\ iter < IrrMaxIter /\ b_iter > 0 /\ b_iter < BeMaxIter

\* every record of yrs has an OPEX, a cash flow and discounted cash flows that
\* are not finite
AllNonFinite(yrs) ==
    \A k \in 1..Len(yrs) :
        /\ ~IsFinite(yrs[k].OPEX) /\ ~IsFinite(yrs[k].CF)
        /\ ~IsFinite(yrs[k].DCF) /\ ~IsFinite(yrs[k].cumulative_dcf)

\* C18: with a consumable service life of 0 (T_ads_life = 0) runFinancialModel
\* raises no error and reports no degenerate-parameter condition: it returns
\* a complete result in which every year's OPEX and cash flow and the NPV are
\* not finite, and whose warnings are only the three ordinary ones.
C18_ZeroServiceLifeSilent ==
    /\ inputs.T_ads_life = I(0) =>
          /\ AllNonFinite(years)
          /\ ~IsFinite(cumulative_cf_undiscounted) \/ years = <<>>
          /\ NPV # Null => ~IsFinite(Val(NPV))
          /\ result # Null =>
                /\ Len(years) = inputs.T_project + 1
                /\ ~IsFinite(Val(result).yr1_opex)
                /\ \A k \in 1..Len(Val(result).warnings) :
                      Val(result).warnings[k] \in
                          {"never_eligible", "allocation_exceeds", "npv_negative"}
    /\ (s_run # Null /\ Val(s_run).inputs.T_ads_life = I(0)) =>
          AllNonFinite(Val(s_run).years)

\* a run with a zero service life that returned an NPV of -Infinity over the
\* longest horizon
C18_Witness ==
    /\ pc = "done" /\ inputs.T_ads_life = I(0) /\ inputs.T_project = MaxT
    /\ Val(NPV) = NegInf /\ result # Null

\* an end of the final IRR bracket is still within 0.01 of its initial value
LoUnmoved == RLe(RAbs(RSub(lo, IrrLo0)), IrrMoved)
HiUnmoved == RLe(RAbs(RSub(hi, IrrHi0)), IrrMoved)

\* the IRR search has ended and the IRR has been set from its final bracket
IrrReported == pc \notin {"years", "irr", "metrics"}

\* C19 as stated: after the IRR bisection, IRR is null when both final
\* bracket ends are still within 0.01 of their initial values (-0.50 and
\* 2.00), and is otherwise the midpoint of the final bracket.
C19_Original_NullWhenBothUnmoved ==
    IrrReported =>
        IF LoUnmoved /\ HiUnmoved THEN IRR = Null
        ELSE IRR = Some(RDiv(RAdd(lo, hi), I(2)))

\* C19 amended: after the IRR bisection, IRR is null when either end of the
\* final bracket is still within 0.01 of its initial value (lo of -0.50 or hi
\* of 2.00), and is otherwise the midpoint of the final bracket.
C19_NullWhenEitherUnmoved ==
    IrrReported =>
        IF LoUnmoved \/ HiUnmoved THEN IRR = Null
        ELSE IRR = Some(RDiv(RAdd(lo, hi), I(2)))

\* a finished run whose bracket moved at its lower end only, up to the
\* initial upper end, and whose IRR is null
C19_Witness ==
    /\ pc = "done" /\ IRR = Null /\ ~LoUnmoved /\ HiUnmoved
    /\ \A k \in 1..Len(years) : IsFinite(years[k].CF)

\* the incentive stream is active in the year of the record yr
IncentiveActive(v, inp, yr) ==
    /\ RGt(inp.f_45Q, I(0)) /\ RLe(I(yr.y), inp.T_45Q)
    /\ v = "simple" \/ yr.is_45Q_eligible

\* the output that earns the incentive in the year of the record yr
IncentiveVolume(v, inp, yr) ==
    IF v = "simple" THEN RMul(yr.CO2_fleet, inp.f_45Q)
    ELSE RAdd(RMul(RMul(yr.CO2_fleet, inp.f_45Q), RSub(I(1), inp.f_greenhouse)),
              IF inp.gh_45Q_eligible THEN RMul(yr.CO2_fleet, inp.f_greenhouse)
              ELSE I(0))

\* the effective rate the claim gives for the calendar year of the record yr
EffectiveRate(inp, yr) ==
    IF RLt(yr.year, inp.Y_45Q_infl) THEN inp.CR_45Q
    ELSE RMul(inp.CR_45Q,
              RPow(RAdd(I(1), RDiv(inp.r_CPI, I(100))),
                   RSub(yr.year, inp.Y_45Q_infl).n))

\* in every active year of the run of inp, the incentive revenue is the
\* incentive volume at the effective rate, which is not below the base rate
RateIndexed(v, inp, yrs) ==
    \A k \in 1..Len(yrs) :
        /\ yrs[k].year = RAdd(inp.Y_start, I(yrs[k].y))
        /\ IncentiveActive(v, inp, yrs[k]) =>
              /\ yrs[k].R_45Q = RMul(IncentiveVolume(v, inp, yrs[k]),
                                     EffectiveRate(inp, yrs[k]))
              /\ RGe(EffectiveRate(inp, yrs[k]), inp.CR_45Q)
              /\ RGe(yrs[k].R_45Q, RMul(IncentiveVolume(v, inp, yrs[k]), inp.CR_45Q))

NonAlternatePortion(inp, yr) ==
    RMul(RMul(yr.CO2_fleet, inp.f_45Q), RSub(I(1), inp.f_greenhouse))
AlternatePortion(inp, yr) == RMul(yr.CO2_fleet, inp.f_greenhouse)

\* the incentive revenue of the year of the record yr with the toggle set to g
IncentiveWithToggle(inp, yr, g) ==
    R_45Q("extended", [inp EXCEPT !.gh_45Q_eligible = g], yr.y, yr.CO2_fleet,
          yr.is_45Q_eligible)

\* the incentive revenue of every record of the extended engine's run on inp
\* is that of the non-alternate portion at the effective rate plus, with the
\* toggle enabled, that of the alternate portion at the same rate; enabling
\* the toggle does not lower it, and leaves it as it is for a fraction of 0
AlternateSplit(inp, yrs) ==
    \A k \in 1..Len(yrs) :
        /\ yrs[k].R_45Q = IncentiveWithToggle(inp, yrs[k], inp.gh_45Q_eligible)
        /\ IncentiveActive("extended", inp, yrs[k]) =>
              /\ IncentiveWithToggle(inp, yrs[k], FALSE) =
                    RMul(NonAlternatePortion(inp, yrs[k]), EffectiveRate(inp, yrs[k]))
              /\ IncentiveWithToggle(inp, yrs[k], TRUE) =
                    RAdd(RMul(NonAlternatePortion(inp, yrs[k]), EffectiveRate(inp, yrs[k])),
                         RMul(AlternatePortion(inp, yrs[k]), EffectiveRate(inp, yrs[k])))
        /\ RGe(IncentiveWithToggle(inp, yrs[k], TRUE),
               IncentiveWithToggle(inp, yrs[k], FALSE))
        /\ inp.f_greenhouse = I(0) =>
              IncentiveWithToggle(inp, yrs[k], TRUE) = IncentiveWithToggle(inp, yrs[k], FALSE)

\* C21: in the extended variant the year's output is split into an alternate
\* portion and a non-alternate portion: with the alternate-pathway toggle
\* disabled the alternate portion contributes exactly 0 to the incentive
\* stream, with it enabled it earns the same effective rate as the
\* non-alternate portion; enabling the toggle never lowers a year's incentive
\* revenue, and changes nothing when the alternate fraction is 0.
C21_AlternatePortionByToggle ==
    variant = "extended" =>
        /\ AlternateSplit(inputs, years)
        /\ s_run # Null => AlternateSplit(Val(s_run).inputs, Val(s_run).years)

\* a finished run of the extended engine with an alternate fraction and the
\* toggle enabled, in which a year earns more than it would with the toggle
\* disabled
C21_Witness ==
    /\ pc = "done" /\ variant = "extended" /\ inputs.gh_45Q_eligible
    /\ RGt(inputs.f_greenhouse, I(0))
    /\ \E k \in 1..Len(years) :
          /\ RGt(IncentiveWithToggle(inputs, years[k], FALSE), I(0))
          /\ RGt(years[k].R_45Q, IncentiveWithToggle(inputs, years[k], FALSE))

\* the offtake revenue of every record of the extended engine's run on inp is
\* that of the two volumes at their prices; the standard volume is
\* CO2_fleet * max(0, f_offtake - f_greenhouse) and not negative, and the two
\* volumes add up to the offtake allocation f_offtake * CO2_fleet
OfftakeSplit(inp, yrs) ==
    \A k \in 1..Len(yrs) :
        /\ yrs[k].R_offtake =
              RAdd(RMul(OfftakeVolume_non_gh(inp, yrs[k].CO2_fleet),
                        RMul(inp.P_offtake, Escalation(inp.r_offtake, yrs[k].y))),
                   RMul(OfftakeVolume_gh(inp, yrs[k].CO2_fleet),
                        RMul(inp.P_greenhouse, Escalation(inp.r_offtake, yrs[k].y))))
        /\ OfftakeVolume_non_gh(inp, yrs[k].CO2_fleet) =
              RMul(yrs[k].CO2_fleet, RMax(I(0), RSub(inp.f_offtake, inp.f_greenhouse)))
        /\ RGe(OfftakeVolume_non_gh(inp, yrs[k].CO2_fleet), I(0))
        /\ RAdd(OfftakeVolume_non_gh(inp, yrs[k].CO2_fleet),
                OfftakeVolume_gh(inp, yrs[k].CO2_fleet))
              = RMul(inp.f_offtake, yrs[k].CO2_fleet)

\* C22: in the extended variant the offtake allocation of each year
\* (f_offtake * fleet output) is split between the standard price and the
\* alternate-pathway price: the non-alternate volume is
\* fleet output * max(0, f_offtake - f_greenhouse), it is never negative, and
\* the standard and alternate volumes together equal f_offtake * fleet output.
C22_OfftakeSplit ==
    variant = "extended" => OfftakeSplit(inputs, years)

\* the deployed-unit count of the year before that of record k (0 before the
\* first year)
DeployedBefore(yrs, k) == IF k = 1 THEN I(0) ELSE yrs[k - 1].N_deployed

\* the sum of the learning-curve costs of the units numbered m <= n with
\* from < m <= to
RECURSIVE ChargedCost(_, _, _, _)
ChargedCost(inp, from, to, n) ==
    IF n = 0 THEN I(0)
    ELSE RAdd(ChargedCost(inp, from, to, n - 1),
              IF RLt(from, I(n)) /\ RLe(I(n), to) THEN UnitCost(inp, n) ELSE I(0))

\* sum of the capex_year fields of the first k records
RECURSIVE SumCapexYear(_, _)
SumCapexYear(yrs, k) ==
    IF k = 0 THEN I(0) ELSE RAdd(SumCapexYear(yrs, k - 1), yrs[k].capex_year)

\* the records in whose year unit n is charged
YearsCharging(yrs, n) ==
    { k \in 1..Len(yrs) :
        RLt(DeployedBefore(yrs, k), I(n)) /\ RLe(I(n), yrs[k].N_deployed) }

\* on the records yrs of a run on inp: the capital of every year is the sum of
\* the costs of the units N(y-1)+1 .. N(y); a unit deployed by the last year
\* is charged in exactly one year, any other unit (one beyond N_units among
\* them) in none, and the capital of all years is the sum of the costs of the
\* units deployed by the last year
CapitalByUnits(inp, yrs) ==
    /\ \A k \in 1..Len(yrs) :
          /\ yrs[k].capex_year =
                ChargedCost(inp, DeployedBefore(yrs, k), yrs[k].N_deployed,
                            NumUnitsBuilt(inp) + 1)
          /\ RLe(yrs[k].N_deployed, inp.N_units)
    /\ yrs # <<>> =>
          /\ \A n \in 1..(NumUnitsBuilt(inp) + 1) :
                Cardinality(YearsCharging(yrs, n)) =
                    IF RLe(I(n), yrs[Len(yrs)].N_deployed) THEN 1 ELSE 0
          /\ SumCapexYear(yrs, Len(yrs)) =
                ChargedCost(inp, I(0), yrs[Len(yrs)].N_deployed, NumUnitsBuilt(inp) + 1)

RunKey == IF pc = "sens_hi" THEN SensParams[s_k] ELSE SensParams[s_k - 1]
RunFactor == IF pc = "sens_hi" THEN SensLoFactor ELSE SensHiFactor

\* the keys in which the input sets a and b differ
DiffKeys(a, b) == {k \in DOMAIN a : a[k] # b[k]}

\* the input set x has the keys of base, the value factor * base[key] under
\* key and the values of base under every other key; so it differs from base
\* in that key alone (in none where factor * base[key] is base[key], as for a
\* base value of 0)
PerturbedOnly(base, x, key, factor) ==
    /\ DOMAIN x = DOMAIN base
    /\ x[key] = RMul(base[key], factor)
    /\ \A k \in DOMAIN base \ {key} : x[k] = base[k]
    /\ DiffKeys(base, x) = IF RMul(base[key], factor) = base[key] THEN {} ELSE {key}

\* the runs of the sweep so far: the latest one is on the base input set
\* perturbed in its key alone; the entries so far are those of the first
\* parameters of the list, in order, each with the unperturbed base value and
\* the latest entry with the NPV of the latest high run; two runs were made
\* for every entry
PerturbedRuns ==
    /\ s_run # Null =>
          /\ PerturbedOnly(inputs, Val(s_run).inputs, RunKey, RunFactor)
          /\ Val(s_run).years = RunYears(variant, Val(s_run).inputs)
          /\ pc = "sens_hi" => Val(s_npv_lo) = NPVOfYears(Val(s_run).years)
          /\ pc \in {"sens_lo", "sens_sort"} =>
                /\ s_entries[Len(s_entries)].npv_hi = NPVOfYears(Val(s_run).years)
                /\ s_entries[Len(s_entries)].npv_lo = Val(s_npv_lo)
    /\ pc \in {"sens_lo", "sens_hi"} => Len(s_entries) = s_k - 1
    /\ pc \in {"sens_sort", "sens_done"} => Len(s_entries) = Len(SensParams)
    /\ \A k \in 1..Len(s_entries) :
          /\ s_entries[k].key = SensParams[k]
          /\ s_entries[k].base_val = inputs[SensParams[k]]
    /\ sensitivity # Null =>
          \A k \in 1..Len(Val(sensitivity)) :
              Val(sensitivity)[k].base_val = inputs[Val(sensitivity)[k].key]

\* no step modifies the base input set
BaseKept == inputs' = inputs

Returned ==
    [ years |-> years, NPV |-> Val(NPV), IRR |-> IRR,
      payback_disc |-> payback_disc, payback_simple |-> payback_simple,
      LCCC |-> Val(LCCC), CR_breakeven |-> Val(CR_breakeven),
      warnings |-> Val(result).warnings ]

\* the extended engine's extra inputs at the values that switch them off, on
\* an input set with non-negative fractions and output
SimpleConfiguration(inp) ==
    /\ inp.Q_thresh_45Q = I(0) /\ inp.f_greenhouse = I(0) /\ ~inp.gh_45Q_eligible
    /\ RGe(inp.f_45Q, I(0)) /\ RGe(inp.f_VCM, I(0))
    /\ RGe(inp.f_offtake, I(0)) /\ RGe(inp.f_comply, I(0))
    /\ RGe(CO2_tpy(inp), I(0)) /\ RGe(inp.N_units, I(0))

\* C25: the two engine variants are two configurations of one behaviour: for
\* every input set with non-negative fractions and output, the extended
\* engine run with eligibility threshold 0, alternate-pathway fraction 0 and
\* the alternate toggle off produces the same year records, NPV, IRR, payback
\* years, LCCC, breakeven price and warnings as the simple engine run on the
\* same remaining inputs, whatever the alternate-pathway price (the
\* step-by-step run of either engine returning what the engine as a function
\* returns).
C25_EnginesAgree ==
    pc = "done" =>
        /\ Returned = runFinancialModel(variant, inputs)
        /\ SimpleConfiguration(inputs) =>
              /\ runFinancialModel("extended", inputs) = runFinancialModel("simple", inputs)
              /\ \A g \in {Q(1, 2), I(20)} :
                    runFinancialModel("extended", [inputs EXCEPT !.P_greenhouse = g])
                        = runFinancialModel("simple", inputs)

\* a finished run of the extended engine in the simple configuration, with
\* incentive and offtake revenue, an IRR and a warning
C25_Witness ==
    /\ pc = "done" /\ variant = "extended" /\ SimpleConfiguration(inputs)
    /\ RGt(years[1].R_45Q, I(0)) /\ RGt(years[1].R_offtake, I(0))
    /\ IRR # Null /\ Val(result).warnings = <<"npv_negative">>

\* a JavaScript number that is a positive integer
IsPositiveInteger(a) == a.d = 1 /\ a.n >= 1

\* the input set x has a positive-integer fleet size and horizon
WholeFleetAndHorizon(x) == IsPositiveInteger(x.N_units) /\ x.T_project >= 1

\* in the records yrs of a run on x the deployed-unit count of every year is a
\* whole number of units, each with a cost in the schedule
WholeUnitsDeployed(x, yrs) ==
    \A k \in 1..Len(yrs) :
        /\ IsPositiveInteger(yrs[k].N_deployed)
        /\ yrs[k].N_deployed.n <= Len(unit_capex(x))

\* C26: every parameter set on which the pipeline is run has a
\* positive-integer fleet size and a positive-integer horizon; in particular
\* each of the perturbed parameter sets that runSensitivity builds from a
\* base set that satisfies it, so that in every such run the deployed-unit
\* count of every year is a whole number of units, each with a capital cost
\* in the unit cost schedule.
C26_WholeFleetInEveryRun ==
    WholeFleetAndHorizon(inputs) =>
        /\ WholeUnitsDeployed(inputs, years)
        /\ s_run # Null =>
              /\ WholeFleetAndHorizon(Val(s_run).inputs)
              /\ WholeUnitsDeployed(Val(s_run).inputs, Val(s_run).years)

\* the search's npv_test at a price, over the first k records
RECURSIVE BeNpvAt(_, _, _, _, _)
BeNpvAt(v, inp, yrs, price, k) ==
    IF k = 0 THEN I(0)
    ELSE RAdd(BeNpvAt(v, inp, yrs, price, k - 1),
              RDiv(BeCashFlow(v, inp, yrs[k], price), RPow(OnePlusR(inp), yrs[k].y)))

\* the cash flow of the year of the record yr as the simulator computes it
\* with the incentive rate set to price
SimulatedCashFlowAt(v, inp, yr, price) ==
    RSub(RSub(RAdd(R_45Q(v, [inp EXCEPT !.CR_45Q = price], yr.y, yr.CO2_fleet,
                         yr.is_45Q_eligible),
                   RAdd(RAdd(yr.R_VCM, yr.R_offtake), yr.R_comply)),
              yr.OPEX),
         yr.capex_year)

\* the prices at which the search is compared with the simulator: the
\* configured rate and the first candidate price
ComparedPrices(inp) == {inp.CR_45Q, RDiv(RAdd(BeLo0, BeHi0), I(2))}

\* C27: at every candidate price the breakeven search recomputes only the
\* incentive stream, under the same rules the simulator applies to it
\* (window, eligibility gate, inflation indexing, alternate-pathway split),
\* and reuses each year record's market, offtake and compliance revenue, OPEX
\* and capital unchanged; consequently the search's NPV evaluated at a
\* candidate price equal to the configured incentive rate CR_45Q equals the
\* simulated NPV.
C27_BreakevenRecomputesIncentive ==
    NPV # Null =>
        /\ \A k \in 1..Len(years) : \A price \in ComparedPrices(inputs) :
              BeCashFlow(variant, inputs, years[k], price)
                  = SimulatedCashFlowAt(variant, inputs, years[k], price)
        /\ BeNpvAt(variant, inputs, years, inputs.CR_45Q, Len(years)) = Val(NPV)

\* deployment completes within the horizon:
\* floor(T_project * units_per_year) + 1 >= N_units
CompletesWithinHorizon(inp) ==
    RGe(RAdd(RFloor(RMul(I(inp.T_project), inp.units_per_year)), I(1)), inp.N_units)

\* on the records yrs of a run on inp: the cumulative capital of every year is
\* the sum of the capex_year fields up to that year, and is the capital the
\* insurance and maintenance items of the year's OPEX are computed on
CumulativeCapital(inp, yrs) ==
    \A k \in 1..Len(yrs) :
        /\ capex_cum(unit_capex(inp), yrs[k].N_deployed) = SumCapexYear(yrs, k)
        /\ yrs[k].OPEX = OPEX(inp, yrs[k].y, yrs[k].N_deployed, SumCapexYear(yrs, k))

\* at the last year of a complete run the cumulative capital is the total
\* fleet capex, if deployment completes within the horizon
CumulativeIsFleetTotal(inp, yrs) ==
    (Len(yrs) = inp.T_project + 1 /\ CompletesWithinHorizon(inp)) =>
        /\ capex_cum(unit_capex(inp), yrs[Len(yrs)].N_deployed) = capex_fleet_total(inp)
        /\ SumCapexYear(yrs, Len(yrs)) = capex_fleet_total(inp)

EligibilityMonotone(yrs) ==
    \A j \in 1..Len(yrs) : \A k \in j..Len(yrs) :
        yrs[j].is_45Q_eligible => yrs[k].is_45Q_eligible

\* the records' calendar years are the start year plus their offsets
CalendarYears(inp, yrs) ==
    \A k \in 1..Len(yrs) : yrs[k].year = RAdd(inp.Y_start, I(k - 1))

\* ty is the calendar year of the first eligible record, null when there is none
FirstEligibleYear(yrs, ty) ==
    /\ ty = Null <=> (\A k \in 1..Len(yrs) : ~yrs[k].is_45Q_eligible)
    /\ ty # Null =>
          \E k \in 1..Len(yrs) :
              /\ yrs[k].is_45Q_eligible
              /\ \A j \in 1..(k - 1) : ~yrs[j].is_45Q_eligible
              /\ Val(ty) = yrs[k].year

\* C29: in the threshold-gated variant with non-negative per-unit output, the
\* eligibility flag is monotone over the year sequence: once a year record is
\* incentive-eligible every later record is eligible too; threshold_year is
\* the calendar year of the first eligible record and is null exactly when no
\* record is eligible.
C29_EligibilityMonotone ==
    /\ (variant = "extended" /\ RGe(CO2_tpy(inputs), I(0))) =>
          /\ EligibilityMonotone(years)
          /\ CalendarYears(inputs, years)
          /\ result # Null => FirstEligibleYear(years, Val(result).threshold_year)
    /\ (variant = "extended" /\ s_run # Null /\ RGe(CO2_tpy(Val(s_run).inputs), I(0))) =>
          EligibilityMonotone(Val(s_run).years)

\* a finished run of the extended engine whose fleet crosses the threshold in
\* its second year
C29_Witness ==
    /\ pc = "done" /\ variant = "extended" /\ Len(years) >= 3
    /\ RGt(CO2_tpy(inputs), I(0))
    /\ ~years[1].is_45Q_eligible /\ years[2].is_45Q_eligible /\ years[3].is_45Q_eligible
    /\ Val(result).threshold_year = Some(years[2].year)

\* every slider-controlled input is within its slider's range
WithinSliderRanges(v, inp) ==
    \A s \in Sliders(v) : RGe(inp[s.key], s.min) /\ RLe(inp[s.key], s.max)

\* a consumable life of at least 3, a fleet of at least 1, a horizon of at least 5
NeverBelowMinima(inp) ==
    /\ RGe(inp.T_ads_life, I(3))
    /\ RGe(inp.N_units, I(1))
    /\ RGe(inp.T_project, I(5))

\* a preset application changes no key outside the preset
PresetOverwritesOnlyItsKeys ==
    \A name \in {"conservative", "base", "optimistic"} :
        applyScenario(name) =>
            /\ DOMAIN inputs' = DOMAIN inputs
            /\ \A k \in DOMAIN inputs \ DOMAIN SCENARIOS(variant)[name] :
                   inputs'[k] = inputs[k]
            /\ \A k \in DOMAIN SCENARIOS(variant)[name] :
                   inputs'[k] = SCENARIOS(variant)[name][k]

====
